---- MODULE Spec2Model ----
(***************************************************************************)
(* Mail2Ledger: the polling ingestion pipeline (run_once), the ledger      *)
(* ingest service (ingest_email_job, _insert_batch) and the storage        *)
(* gateway, as state machines.                                             *)
(*                                                                         *)
(*   Spec       run_once over a mailbox, polled repeatedly                 *)
(*   SpecLive   one poll of run_once, the listing read page by page, fair  *)
(*   SpecBatch  _insert_batch, attempt by attempt                          *)
(*   SpecJob    ingest_email_job, row by row                               *)
(*   SpecSlice  the slicer, sheet by sheet and spec by spec                *)
(*   SpecNorm   ai_transform_one_row_to_db_record                          *)
(*   SpecWorker the worker loop of run_realtime_worker.py                  *)
(*   SpecConfig the configuration of one message's job                     *)
(*   SpecRegistry, SpecRegistryConcurrent   log_ingest_file_registry       *)
(***************************************************************************)
EXTENDS Integers, Sequences, FiniteSets, TLC

\* ------------------------------------------------------------------ bounds
NumCallers == 2
MaxRegCalls == 3
MaxJobAtts == 2         \* attachments of one job
MaxJobRows == 3         \* rows extracted from one attachment
MaxJobBatch == 3        \* largest batch_size of the ingest service
NumMsgs == 2            \* messages in the mailbox
NumLabels == 2          \* configured [MAIL2LEDGER_LABEL_*] sections
MaxAtt == 1             \* eligible attachments per message
MaxRows == 2            \* records kept per attachment
MaxRuns == 2            \* polls
MaxBatchSize == 1       \* BATCH_SIZE values tried: 1..MaxBatchSize
MaxFaults == 2          \* exceptions raised by collaborators, over all polls
MaxRetry == 2           \* DB_RETRY values tried: -1..MaxRetry
MaxRecords == 2         \* records in one batch
MaxCalls == 2           \* _insert_batch calls in a row

Messages == 1..NumMsgs
Labels == 1..NumLabels

VARIABLES
    \* --- durable state outside the process
    unread,                 \* Gmail: message ids that carry the UNREAD label
    msgLabels,              \* Gmail: the labels of each message
    nAtts,                  \* Gmail: number of eligible (xlsx) attachments per message
    ledger,                 \* rows committed to the ledger table, per source message
    registry,               \* daily.ingest_file_registry rows
    \* --- run_once locals
    pc, runNo, crashedAt,
    send_alerts, send_receipt, max_results, batch_size,
    labelIdx, todo, mid,
    processed_message_ids,
    emails_processed, rows_inserted, emails_failed, emails_skipped,
    \* --- ingest_email_job locals
    attIdx, rowsLeft, inserted,
    \* --- history (observations, never read by the program)
    faults,                 \* exceptions raised so far
    events,                 \* effects of the message being processed, in order
    outcomes,               \* per message: the outcomes of its attempts in this run
    listed,                 \* messages listed as candidates in this run
    expectedBatches,        \* batches the current message's extracted rows need
    markedRun,              \* per message: the run that marked it read (0: none)
    skipCount,              \* per message: how often a run counted it as skipped
    credited,               \* rows inserted for the messages this run counted
                            \* as processed
    taken,                  \* history: the label's ids the loop has taken, in order
    effects,                \* history: the label's messages in the order of their
                            \* inserts, marks and notifications
    \* --- _insert_batch (SpecBatch)
    b_pc, records, db_retry, attempt, last_err, cur_err,
    handle_open, pending, table_rows, result, raised_err,
    attemptsMade, otherAt, errStep, calls,
    \* --- _extract_rows_from_xlsx_bytes_using_specs (SpecSlice)
    s_pc, drop_unnamed, drop_all_blank_rows, n_sheets, sheet_idx, raw,
    table_specs,            \* what the detector's answer was parsed to
    n_specs, t_i, spec, headers, valid_col_idx, all_rows, global_row_idx,
    specs_given,            \* specs the detector gave for the sheets so far
    rows_before,            \* history: len(all_rows) before the last spec
    spec_end,               \* history: how the last spec ended
    skipped,                \* history: t_i of the sheet's specs that were skipped
    \* --- ai_transform_one_row_to_db_record (SpecNorm)
    n_pc, resp, row_json, sheet_index, obj, rec, n_result,
    \* --- main of run_realtime_worker.py (SpecWorker)
    w_pc, base_interval, max_interval, sleep_s,
    slept_before,           \* history: the interval of the previous sleep
    last_run,               \* history: how the last run_once ended
    \* --- configuration of one message's job (SpecConfig)
    c_pc, meta, label_entry, config, bank_defaults, job_cfg,
    \* --- log_ingest_file_registry (SpecRegistry, SpecRegistryConcurrent)
    file_registry,          \* the committed rows of daily.ingest_file_registry
    r_pc, r_params,         \* per caller: position and arguments
    r_found,                \* per caller: what its NOT EXISTS subquery saw
    r_before,               \* history, per caller: the rows when it was called
    r_calls,                \* calls made so far
    \* --- ingest_email_job (SpecJob)
    j_pc, attachments, job_batch_size,
    att_no, row_no,         \* position in "for att" and in "for ctx in rows"
    batch, inserted_total,
    handed,                 \* history: the batches given to _insert_batch
    \* --- search_message_ids page by page (SpecLive)
    page_ids,               \* "ids": the ids of the pages read so far
    page_token              \* ids the service has listed so far (0: no token)

durableVars == <<unread, msgLabels, nAtts, ledger, registry>>
cfgVars == <<send_alerts, send_receipt, max_results, batch_size>>
counterVars == <<emails_processed, rows_inserted, emails_failed, emails_skipped>>
ingestVars == <<attIdx, rowsLeft, inserted>>
loopVars == <<labelIdx, todo, mid, processed_message_ids>>
runVars == <<pc, runNo, crashedAt, cfgVars, loopVars, counterVars, ingestVars>>
orderVars == <<taken, effects>>
histVars == <<faults, events, outcomes, listed, expectedBatches, markedRun,
              skipCount, credited, orderVars>>
batchVars == <<b_pc, records, db_retry, attempt, last_err, cur_err,
               handle_open, pending, table_rows, result, raised_err,
               attemptsMade, otherAt, errStep, calls>>
sliceVars == <<s_pc, table_specs, drop_unnamed, drop_all_blank_rows, n_sheets, sheet_idx,
               raw, n_specs, t_i, spec, headers, valid_col_idx, all_rows,
               global_row_idx, specs_given, rows_before, spec_end, skipped>>
normVars == <<n_pc, resp, row_json, sheet_index, obj, rec, n_result>>
workerVars == <<w_pc, base_interval, max_interval, sleep_s, slept_before,
                last_run>>
configVars == <<c_pc, meta, label_entry, config, bank_defaults, job_cfg>>
registryVars == <<file_registry, r_pc, r_params, r_found, r_before, r_calls>>
jobVars == <<j_pc, attachments, job_batch_size, att_no, row_no, batch, handed,
             inserted_total>>
pagingVars == <<page_ids, page_token>>
laterVars == <<configVars, registryVars, jobVars, pagingVars>>
pureVars == <<sliceVars, normVars, workerVars, laterVars>>
vars == <<durableVars, runVars, histVars, batchVars, pureVars>>

\* ----------------------------------------------------------------- helpers
Max(a, b) == IF a >= b THEN a ELSE b

Min(a, b) == IF a <= b THEN a ELSE b

Reverse(s) == [i \in 1..Len(s) |-> s[Len(s) + 1 - i]]

Take(s, n) == [i \in 1..Min(n, Len(s)) |-> s[i]]

SetMax(S) == CHOOSE x \in S : \A y \in S : y <= x

\* Message ids grow with arrival time; Gmail lists newest first.
RECURSIVE NewestFirst(_)
NewestFirst(S) ==
    IF S = {} THEN <<>>
    ELSE LET x == SetMax(S) IN <<x>> \o NewestFirst(S \ {x})

CeilDiv(a, b) == (a + b - 1) \div b

\* pipeline.py 201: for mid in reversed(ids)
reversed_as_listed(ids) == ids

reversed(ids) == Reverse(ids)

\* the order of effects with message m as the latest to have one
Touched(eff, m) ==
    IF eff # <<>> /\ eff[Len(eff)] = m THEN eff ELSE Append(eff, m)

\* ------------------------------------------------------ Gmail collaborator
\* messages().list(q="is:unread ...", labelIds=[label]): the unread messages
\* that carry the label.
Matching_ignoring_unread(l) == {m \in Messages : l \in msgLabels[m]}

Matching(l) == {m \in Messages : l \in msgLabels[m] /\ m \in unread}

\* search_message_ids: pages are concatenated newest first and cut to
\* max_results.
search_message_ids(l, mx) == Take(NewestFirst(Matching(l)), mx)

\* ------------------------------------------------------ run_once decisions
\* pipeline.py 269-280, 311-329, 349-358: what send_email_text raises is
\* caught and logged next to the call, and the loop goes on as after a send
AfterSend_failure_escapes(ok, nxt) == IF ok THEN nxt ELSE "except"

AfterSend(ok, nxt) == nxt

\* "if not inserted or inserted <= 0"
ZeroRows_negative_only(ins) == ins < 0

ZeroRows(ins) == ins <= 0

\* the skip branch: processed_message_ids.add(mid)
SeenAfterSkip_forgotten(seen, m) == seen

SeenAfterSkip(seen, m) == seen \cup {m}

\* the skip branch leaves the message's UNREAD label alone
UnreadAfterSkip_marked(u, m) == u \ {m}

UnreadAfterSkip(u, m) == u

\* pipeline.py 209, 331: whatever raises inside the try reaches the except
\* branch of the same message
OnMessageError_uncaught == "crashed"

OnMessageError == "except"

\* the except branch ends in "continue": the rest of the label's ids follow
AfterExcept_abort(rest) == <<>>

AfterExcept(rest) == rest

\* ingest_email_job: "for att in attachments" is over when every attachment
\* has been visited; only then "return inserted_total"
IngestFinished(i, n) == i > n

\* pipeline.py 282-287: after a successful ingest the message is marked read
\* first; the receipt follows the mark
AfterIngest_receipt_first == "receipt"

AfterIngest == "mark"

\* a notification attempt as an observable effect
Sent(kind, ok) == <<kind, IF ok THEN "sent" ELSE "failed">>

AlertEvents(ok) == IF send_alerts THEN <<Sent("alert", ok)>> ELSE <<>>

Tally(x) ==
    Cardinality({p \in Messages \X (1..NumLabels) :
                    /\ p[2] \in DOMAIN outcomes[p[1]]
                    /\ outcomes[p[1]][p[2]] = x})

\* -------------------------------------------------------------------- Init
\* excel_2ai_agent.py 41-59: before a call of the slicer
SliceIdle ==
    /\ s_pc = "idle" /\ table_specs = "none"
    /\ drop_unnamed = TRUE /\ drop_all_blank_rows = TRUE
    /\ n_sheets = 0 /\ sheet_idx = 0 /\ raw = <<>>
    /\ n_specs = 0 /\ t_i = 0
    /\ spec = [header_row |-> <<>>, data_start |-> <<>>, data_end |-> <<>>,
               note |-> ""]
    /\ headers = <<>> /\ valid_col_idx = <<>>
    /\ all_rows = <<>> /\ global_row_idx = 0
    /\ specs_given = 0
    /\ rows_before = 0 /\ spec_end = "none" /\ skipped = {}

\* Python's None, and a key a dict does not have (both written as texts, so
\* that every value of a record is a text)
null == "<null>"

absent == "<absent>"

EmptyMap == [k \in {} |-> null]

\* excel_2ai_agent.py 267-281: before a call of the normalizer
NormIdle ==
    /\ n_pc = "idle"
    /\ resp = [form |-> "object", obj |-> EmptyMap]
    /\ row_json = EmptyMap /\ sheet_index = 0
    /\ obj = [kind |-> "none", map |-> EmptyMap]
    /\ rec = EmptyMap /\ n_result = "none"

\* run_realtime_worker.py 15-17: main has not read its configuration yet
WorkerIdle ==
    /\ w_pc = "init"
    /\ base_interval = 0 /\ max_interval = 0 /\ sleep_s = 0
    /\ slept_before = 0 /\ last_run = "none"

\* pipeline.py 205-207: before a message's metadata is read
ConfigIdle ==
    /\ c_pc = "idle"
    /\ meta = EmptyMap /\ label_entry = EmptyMap /\ config = EmptyMap
    /\ bank_defaults = EmptyMap /\ job_cfg = EmptyMap

Callers == 1..NumCallers

\* ingest_registry_repo.py 6-21: an empty table and no call under way
RegistryIdle ==
    /\ file_registry = <<>>
    /\ r_pc = [p \in Callers |-> "idle"]
    /\ r_params = [p \in Callers |-> EmptyMap]
    /\ r_found = [p \in Callers |-> FALSE]
    /\ r_before = [p \in Callers |-> <<>>]
    /\ r_calls = 0

\* ledger_ingest_service.py 142: before a call of ingest_email_job
JobIdle ==
    /\ j_pc = "idle" /\ attachments = <<>> /\ job_batch_size = 1
    /\ att_no = 0 /\ row_no = 0 /\ batch = <<>> /\ handed = <<>>
    /\ inserted_total = 0

\* reader.py 15-16: "ids = []; page_token = None"
PagingIdle == page_ids = <<>> /\ page_token = 0

LaterIdle == ConfigIdle /\ RegistryIdle /\ JobIdle /\ PagingIdle

PureIdle == SliceIdle /\ NormIdle /\ WorkerIdle /\ LaterIdle

BatchIdle ==
    /\ b_pc = "idle" /\ records = 0 /\ db_retry = 0 /\ attempt = 0
    /\ last_err = "none" /\ cur_err = "none" /\ handle_open = 0
    /\ pending = 0 /\ table_rows = 0 /\ result = 0 /\ raised_err = "none"
    /\ attemptsMade = 0 /\ otherAt = 0 /\ errStep = "none" /\ calls = 0

RunLocalsIdle ==
    /\ send_alerts = TRUE /\ send_receipt = TRUE
    /\ max_results = 1 /\ batch_size = 1
    /\ labelIdx = 1 /\ todo = <<>> /\ mid = 0
    /\ processed_message_ids = {}
    /\ emails_processed = 0 /\ rows_inserted = 0
    /\ emails_failed = 0 /\ emails_skipped = 0
    /\ attIdx = 1 /\ rowsLeft = 0 /\ inserted = 0
    /\ events = <<>> /\ outcomes = [m \in Messages |-> <<>>]
    /\ listed = {} /\ expectedBatches = 0
    /\ taken = <<>> /\ effects = <<>>

Init ==
    /\ unread = Messages
    /\ msgLabels \in [Messages -> (SUBSET Labels) \ {{}}]
    /\ nAtts \in [Messages -> 0..MaxAtt]
    /\ ledger = [m \in Messages |-> 0]
    /\ registry = {}
    /\ pc = "idle" /\ runNo = 0 /\ faults = 0 /\ crashedAt = "none"
    /\ markedRun = [m \in Messages |-> 0]
    /\ skipCount = [m \in Messages |-> 0]
    /\ credited = 0
    /\ RunLocalsIdle
    /\ BatchIdle
    /\ PureIdle

\* ----------------------------------------------------------------- run_once
\* pipeline.py 128-178: configuration is re-read on every run; the run-local
\* seen-set and counters start empty.
StartRun ==
    /\ pc = "idle" /\ runNo < MaxRuns
    /\ runNo' = runNo + 1
    /\ send_alerts' \in BOOLEAN
    /\ send_receipt' \in BOOLEAN
    /\ max_results' \in 1..NumMsgs
    /\ batch_size' \in 1..MaxBatchSize
    /\ pc' = "label"
    /\ UNCHANGED <<durableVars, crashedAt, loopVars, counterVars, ingestVars, histVars,
                   batchVars, pureVars>>

\* pipeline.py 186-191: resolve_label_ids is called outside any try
ResolveLabel ==
    /\ pc = "label" /\ labelIdx <= NumLabels
    /\ \/ pc' = "search" /\ UNCHANGED <<labelIdx, faults, crashedAt>>
       \/ /\ pc' = "label" /\ labelIdx' = labelIdx + 1
          /\ UNCHANGED <<faults, crashedAt>>
       \/ /\ faults < MaxFaults
          /\ faults' = faults + 1
          /\ pc' = "crashed"
          /\ crashedAt' = "resolve_label_ids"
          /\ UNCHANGED labelIdx
    /\ UNCHANGED <<durableVars, batchVars, pureVars, orderVars, runNo, cfgVars, todo, mid,
                   processed_message_ids, counterVars, ingestVars,
                   events, outcomes, listed, expectedBatches, markedRun,
                   skipCount, credited>>

\* pipeline.py 193-201: search_message_ids is called outside any try
SearchMessages ==
    /\ pc = "search"
    /\ \/ /\ todo' = reversed(search_message_ids(labelIdx, max_results))
          /\ listed' = listed \cup {todo'[i] : i \in DOMAIN todo'}
          /\ taken' = <<>> /\ effects' = <<>>
          /\ pc' = "next"
          /\ UNCHANGED <<faults, crashedAt>>
       \/ /\ faults < MaxFaults
          /\ faults' = faults + 1
          /\ pc' = "crashed"
          /\ crashedAt' = "search_message_ids"
          /\ UNCHANGED <<todo, listed, orderVars>>
    /\ UNCHANGED <<durableVars, batchVars, pureVars, runNo, cfgVars, labelIdx, mid,
                   processed_message_ids, counterVars, ingestVars,
                   events, outcomes, expectedBatches, markedRun, skipCount, credited>>

\* pipeline.py 201-207: next id of the label; ids already in the seen-set
\* are passed over
NextMessage ==
    /\ pc = "next" /\ todo # <<>>
    /\ todo' = Tail(todo)
    /\ taken' = Append(taken, Head(todo))
    /\ IF Head(todo) \in processed_message_ids
         THEN UNCHANGED <<pc, mid, events, expectedBatches, ingestVars>>
         ELSE /\ mid' = Head(todo)
              /\ events' = <<>>
              /\ expectedBatches' = 0
              /\ attIdx' = 1 /\ rowsLeft' = 0 /\ inserted' = 0
              /\ pc' = "fetch"
    /\ UNCHANGED <<durableVars, batchVars, pureVars, effects, runNo, crashedAt, cfgVars, labelIdx,
                   processed_message_ids, counterVars,
                   faults, outcomes, listed, markedRun, skipCount, credited>>

\* pipeline.py 180, 201: the label's ids are exhausted
LabelDone ==
    /\ pc = "next" /\ todo = <<>>
    /\ labelIdx' = labelIdx + 1
    /\ mid' = 0 /\ events' = <<>> /\ expectedBatches' = 0
    /\ attIdx' = 1 /\ rowsLeft' = 0 /\ inserted' = 0
    /\ pc' = "label"
    /\ UNCHANGED <<durableVars, batchVars, pureVars, orderVars, runNo, crashedAt, cfgVars, todo,
                   processed_message_ids, counterVars,
                   faults, outcomes, listed, markedRun, skipCount, credited>>

\* pipeline.py 209-243: get_message, headers, metadata, attachment download;
\* any of them may raise; no attachments is a skip
FetchMessage ==
    /\ pc = "fetch"
    /\ \/ /\ faults < MaxFaults
          /\ faults' = faults + 1
          /\ pc' = OnMessageError
          /\ UNCHANGED <<emails_skipped, processed_message_ids, outcomes,
                         skipCount, credited, unread>>
       \/ /\ nAtts[mid] = 0
          /\ emails_skipped' = emails_skipped + 1
          /\ processed_message_ids' = SeenAfterSkip(processed_message_ids, mid)
          /\ outcomes' = [outcomes EXCEPT ![mid] = Append(@, "skipped")]
          /\ skipCount' = [skipCount EXCEPT ![mid] = @ + 1]
          /\ unread' = UnreadAfterSkip(unread, mid)
          /\ pc' = "next"
          /\ UNCHANGED <<faults, credited>>
       \/ /\ nAtts[mid] > 0
          /\ pc' = "extract"
          /\ UNCHANGED <<emails_skipped, processed_message_ids, outcomes,
                         skipCount, credited, faults, unread>>
    /\ UNCHANGED <<msgLabels, nAtts, ledger, registry, batchVars, pureVars, orderVars, runNo, crashedAt,
                   cfgVars, labelIdx, todo, mid,
                   emails_processed, rows_inserted, emails_failed, ingestVars,
                   events, listed, expectedBatches, markedRun>>

\* ledger_ingest_service.py 161-175: the next attachment is extracted; the
\* number of records the classifier keeps is the collaborators' choice
ExtractRows ==
    /\ pc = "extract" /\ ~IngestFinished(attIdx, nAtts[mid])
    /\ \E k \in 0..MaxRows :
          /\ rowsLeft' = k
          /\ expectedBatches' = expectedBatches + CeilDiv(k, batch_size)
    /\ pc' = "batch"
    /\ UNCHANGED <<durableVars, batchVars, pureVars, orderVars, runNo, crashedAt, cfgVars, loopVars,
                   counterVars, attIdx, inserted,
                   faults, events, outcomes, listed, markedRun, skipCount, credited>>

\* ledger_ingest_service.py 176-194: one _insert_batch call that commits
InsertBatch ==
    /\ pc = "batch" /\ rowsLeft > 0
    /\ LET n == Min(batch_size, rowsLeft) IN
          /\ ledger' = [ledger EXCEPT ![mid] = @ + n]
          /\ inserted' = inserted + n
          /\ rowsLeft' = rowsLeft - n
    /\ events' = Append(events, <<"commit", "done">>)
    /\ effects' = Touched(effects, mid)
    /\ UNCHANGED <<unread, msgLabels, nAtts, registry, batchVars, pureVars, taken, pc, runNo, crashedAt,
                   cfgVars, loopVars, counterVars, attIdx,
                   faults, outcomes, listed, expectedBatches, markedRun,
                   skipCount, credited>>

\* ledger_ingest_service.py 161, 192-194: the attachment's records are done
AttachmentDone ==
    /\ pc = "batch" /\ rowsLeft = 0
    /\ attIdx' = attIdx + 1
    /\ pc' = "extract"
    /\ UNCHANGED <<durableVars, histVars, batchVars, pureVars, runNo, crashedAt, cfgVars, loopVars,
                   counterVars, rowsLeft, inserted>>

\* extraction, classification or _insert_batch raises inside
\* ingest_email_job: nothing catches it before run_once's except
IngestRaise ==
    /\ \/ pc = "extract" /\ ~IngestFinished(attIdx, nAtts[mid])
       \/ pc = "batch" /\ rowsLeft > 0
    /\ faults < MaxFaults
    /\ faults' = faults + 1
    /\ pc' = OnMessageError
    /\ UNCHANGED <<durableVars, batchVars, pureVars, orderVars, runNo, crashedAt, cfgVars, loopVars,
                   counterVars, ingestVars,
                   events, outcomes, listed, expectedBatches, markedRun,
                   skipCount, credited>>

\* ledger_ingest_service.py 196 and pipeline.py 245-283
IngestReturn ==
    /\ pc = "extract" /\ IngestFinished(attIdx, nAtts[mid])
    /\ IF ZeroRows(inserted)
         THEN /\ emails_failed' = emails_failed + 1
              /\ \E ok \in BOOLEAN :
                    /\ events' = events \o AlertEvents(ok)
                    /\ pc' = AfterSend(ok \/ ~send_alerts, "next")
              /\ outcomes' = [outcomes EXCEPT ![mid] = Append(@, "zero")]
              /\ UNCHANGED rows_inserted
         ELSE /\ rows_inserted' = rows_inserted + inserted
              /\ pc' = AfterIngest
              /\ UNCHANGED <<emails_failed, events, outcomes>>
    /\ effects' = IF events' # events THEN Touched(effects, mid) ELSE effects
    /\ UNCHANGED <<durableVars, batchVars, pureVars, taken, runNo, crashedAt, cfgVars, loopVars,
                   emails_processed, emails_skipped, ingestVars,
                   faults, listed, expectedBatches, markedRun, skipCount, credited>>

\* pipeline.py 284-287 and actions.py 3-11: remove UNREAD, then count
mark_message_as_read ==
    /\ pc = "mark"
    /\ \/ /\ unread' = unread \ {mid}
          /\ markedRun' = [markedRun EXCEPT ![mid] = runNo]
          /\ emails_processed' = emails_processed + 1
          /\ processed_message_ids' = processed_message_ids \cup {mid}
          /\ events' = Append(events, <<"mark", "done">>)
          /\ effects' = Touched(effects, mid)
          /\ outcomes' = [outcomes EXCEPT ![mid] = Append(@, "ok")]
          /\ credited' = credited + inserted
          /\ pc' = "receipt"
          /\ UNCHANGED faults
       \/ /\ faults < MaxFaults
          /\ faults' = faults + 1
          /\ pc' = OnMessageError
          /\ UNCHANGED <<unread, markedRun, emails_processed,
                         processed_message_ids, events, outcomes, effects,
                         credited>>
    /\ UNCHANGED <<msgLabels, nAtts, ledger, registry, batchVars, pureVars, taken, runNo, crashedAt,
                   cfgVars, labelIdx, todo, mid, rows_inserted, emails_failed,
                   emails_skipped, ingestVars, listed, expectedBatches,
                   skipCount>>

\* pipeline.py 294-329: best-effort receipt; a failed receipt is alerted
SendReceipt ==
    /\ pc = "receipt"
    /\ \E to_sender \in BOOLEAN, ok \in BOOLEAN, ok2 \in BOOLEAN :
          /\ events' = IF send_receipt /\ to_sender
                         THEN events \o <<Sent("receipt", ok)>>
                                     \o (IF ok THEN <<>> ELSE AlertEvents(ok2))
                         ELSE events
          /\ pc' = AfterSend(ok \/ ~(send_receipt /\ to_sender), "next")
    /\ effects' = IF events' # events THEN Touched(effects, mid) ELSE effects
    /\ UNCHANGED <<durableVars, batchVars, pureVars, taken, runNo, crashedAt, cfgVars, loopVars,
                   counterVars, ingestVars,
                   faults, outcomes, listed, expectedBatches, markedRun,
                   skipCount, credited>>

\* pipeline.py 331-361: the message boundary
HandleException ==
    /\ pc = "except"
    /\ emails_failed' = emails_failed + 1
    /\ \E ok \in BOOLEAN :
          /\ events' = events \o AlertEvents(ok)
          /\ pc' = AfterSend(ok \/ ~send_alerts, "next")
    /\ outcomes' = [outcomes EXCEPT ![mid] = Append(@, "error")]
    /\ effects' = IF events' # events THEN Touched(effects, mid) ELSE effects
    /\ todo' = AfterExcept(todo)
    /\ UNCHANGED <<durableVars, batchVars, pureVars, taken, runNo, crashedAt, cfgVars, labelIdx, mid,
                   processed_message_ids, emails_processed, rows_inserted,
                   emails_skipped, ingestVars,
                   faults, listed, expectedBatches, markedRun, skipCount, credited>>

\* pipeline.py 363-368
ReturnCounts ==
    /\ pc = "label" /\ labelIdx > NumLabels
    /\ pc' = "returned"
    /\ UNCHANGED <<durableVars, histVars, batchVars, pureVars, runNo, crashedAt, cfgVars, loopVars,
                   counterVars, ingestVars>>

\* run_realtime_worker.py 28-48: the worker sleeps and polls again, also
\* after a crashed run; the run's locals are gone
EndRun ==
    /\ pc \in {"returned", "crashed"}
    /\ pc' = "idle" /\ crashedAt' = "none"
    /\ send_alerts' = TRUE /\ send_receipt' = TRUE
    /\ max_results' = 1 /\ batch_size' = 1
    /\ labelIdx' = 1 /\ todo' = <<>> /\ mid' = 0
    /\ processed_message_ids' = {}
    /\ emails_processed' = 0 /\ rows_inserted' = 0
    /\ emails_failed' = 0 /\ emails_skipped' = 0
    /\ attIdx' = 1 /\ rowsLeft' = 0 /\ inserted' = 0
    /\ events' = <<>> /\ outcomes' = [m \in Messages |-> <<>>]
    /\ listed' = {} /\ expectedBatches' = 0
    /\ taken' = <<>> /\ effects' = <<>> /\ credited' = 0
    /\ UNCHANGED <<durableVars, batchVars, pureVars, runNo, faults, markedRun,
                   skipCount>>

Next ==
    \/ StartRun \/ ResolveLabel \/ SearchMessages \/ NextMessage \/ LabelDone
    \/ FetchMessage \/ ExtractRows \/ InsertBatch \/ AttachmentDone
    \/ IngestRaise \/ IngestReturn \/ mark_message_as_read \/ SendReceipt
    \/ HandleException \/ ReturnCounts \/ EndRun

Spec == Init /\ [][Next]_vars

\* ============================================================ _insert_batch
\* b_pc: idle | acquire | execute | commit | rollback | handler | finally |
\*       returned | raised
\* errors: "operational" is psycopg2.OperationalError, "other" is any other
\* exception (IntegrityError, DataError, InterfaceError, ...)
Errors == {"operational", "other"}

\* ledger_ingest_service.py 111
Attempts(retry) == 1 + Max(0, retry)

\* ledger_ingest_service.py 127: except psycopg2.OperationalError
IsRetryable_any(e) == e # "none"

IsRetryable(e) == e = "operational"

\* helpers.py 101-107: the gateway's connection is not in autocommit mode, so
\* the rows execute_batch sent stay invisible until commit; rollback
\* discards them
VisibleAfterRollback_keeps_sent(table, pend) == table + pend

VisibleAfterRollback(table, pend) == table

runAllVars == <<durableVars, runVars, histVars>>

InitBatch ==
    /\ unread = Messages
    /\ msgLabels = [m \in Messages |-> Labels]
    /\ nAtts = [m \in Messages |-> 0]
    /\ ledger = [m \in Messages |-> 0]
    /\ registry = {}
    /\ pc = "idle" /\ runNo = 0 /\ faults = 0 /\ crashedAt = "none"
    /\ markedRun = [m \in Messages |-> 0]
    /\ skipCount = [m \in Messages |-> 0]
    /\ credited = 0
    /\ RunLocalsIdle
    /\ BatchIdle
    /\ PureIdle

\* ledger_ingest_service.py 107-112: a call; an empty batch returns 0 at once
BatchCall ==
    /\ b_pc \in {"idle", "returned", "raised"}
    /\ calls < MaxCalls
    /\ calls' = calls + 1
    /\ records' \in 0..MaxRecords
    /\ db_retry' \in (-1)..MaxRetry
    /\ attempt' = 1
    /\ last_err' = "none" /\ cur_err' = "none" /\ raised_err' = "none"
    /\ pending' = 0 /\ table_rows' = 0 /\ result' = 0
    /\ attemptsMade' = 0 /\ otherAt' = 0 /\ errStep' = "none"
    /\ b_pc' = IF records' = 0 THEN "returned" ELSE "acquire"
    /\ UNCHANGED <<runAllVars, pureVars, handle_open>>

\* ledger_ingest_service.py 115 and aws_postgresql.py 13-24: the gateway is
\* constructed before the try; an exception of the constructor leaves
\* _insert_batch at once
Acquire ==
    /\ b_pc = "acquire"
    /\ attemptsMade' = attemptsMade + 1
    /\ \/ /\ handle_open' = handle_open + 1
          /\ b_pc' = "execute"
          /\ UNCHANGED <<raised_err, otherAt, errStep>>
       \/ \E e \in Errors :
             /\ raised_err' = e
             /\ otherAt' = IF e = "other" THEN attempt ELSE otherAt
             /\ errStep' = "acquire"
             /\ b_pc' = "raised"
             /\ UNCHANGED handle_open
    /\ UNCHANGED <<runAllVars, pureVars, records, db_retry, attempt, last_err, cur_err,
                   pending, table_rows, result, calls>>

\* helpers.py 101-102: execute_batch sends the records page by page inside
\* one transaction; a failure leaves the pages already sent uncommitted
Execute ==
    /\ b_pc = "execute"
    /\ \/ /\ pending' = records
          /\ b_pc' = "commit"
          /\ UNCHANGED <<cur_err, errStep>>
       \/ \E e \in Errors, sent \in 0..(records - 1) :
             /\ pending' = sent
             /\ cur_err' = e
             /\ errStep' = "execute"
             /\ b_pc' = "rollback"
    /\ UNCHANGED <<runAllVars, pureVars, records, db_retry, attempt, last_err,
                   handle_open, table_rows, result, raised_err,
                   attemptsMade, otherAt, calls>>

\* helpers.py 103-104
Commit ==
    /\ b_pc = "commit"
    /\ \/ /\ table_rows' = table_rows + pending
          /\ pending' = 0
          /\ result' = records
          /\ b_pc' = "finally"
          /\ UNCHANGED <<cur_err, errStep>>
       \/ \E e \in Errors :
             /\ cur_err' = e
             /\ errStep' = "commit"
             /\ b_pc' = "rollback"
             /\ UNCHANGED <<table_rows, pending, result>>
    /\ UNCHANGED <<runAllVars, pureVars, records, db_retry, attempt, last_err,
                   handle_open, raised_err, attemptsMade, otherAt, calls>>

\* helpers.py 105-107: rollback, then re-raise; an exception of rollback
\* itself replaces the one being handled
Rollback ==
    /\ b_pc = "rollback"
    /\ \/ /\ pending' = 0
          /\ table_rows' = VisibleAfterRollback(table_rows, pending)
          /\ UNCHANGED <<cur_err, errStep>>
       \/ \E e \in Errors :
             /\ cur_err' = e
             /\ errStep' = "rollback"
             /\ UNCHANGED <<pending, table_rows>>
    /\ b_pc' = "handler"
    /\ UNCHANGED <<runAllVars, pureVars, records, db_retry, attempt, last_err,
                   handle_open, result, raised_err,
                   attemptsMade, otherAt, calls>>

\* ledger_ingest_service.py 127-131: only OperationalError is caught; it is
\* re-raised on the last attempt
Handler ==
    /\ b_pc = "handler"
    /\ last_err' = IF IsRetryable(cur_err) THEN cur_err ELSE last_err
    /\ otherAt' = IF cur_err = "other" THEN attempt ELSE otherAt
    /\ b_pc' = "finally"
    /\ UNCHANGED <<runAllVars, pureVars, records, db_retry, attempt, cur_err,
                   handle_open, pending, table_rows, result, raised_err,
                   attemptsMade, errStep, calls>>

\* ledger_ingest_service.py 132-136 and aws_postgresql.py 52-61: the finally
\* block closes the gateway and swallows what close_connection raises; then
\* the attempt returns, propagates, or the loop goes on
Finally ==
    /\ b_pc = "finally"
    /\ \/ handle_open' = handle_open - 1 /\ pending' = 0
       \/ UNCHANGED <<handle_open, pending>>
    /\ IF cur_err = "none"
         THEN /\ b_pc' = "returned"
              /\ UNCHANGED <<attempt, raised_err, cur_err>>
         ELSE IF IsRetryable(cur_err) /\ attempt # Attempts(db_retry)
           THEN /\ attempt' = attempt + 1
                /\ cur_err' = "none"
                /\ b_pc' = "acquire"
                /\ UNCHANGED raised_err
           ELSE /\ raised_err' = cur_err
                /\ b_pc' = "raised"
                /\ UNCHANGED <<attempt, cur_err>>
    /\ UNCHANGED <<runAllVars, pureVars, records, db_retry, last_err, table_rows,
                   result, attemptsMade, otherAt, errStep, calls>>

NextBatch ==
    \/ BatchCall \/ Acquire \/ Execute \/ Commit \/ Rollback \/ Handler
    \/ Finally

SpecBatch == InitBatch /\ [][NextBatch]_vars


\* ================================================================== claims
Last(s) == s[Len(s)]

EventsOf(kind) == {i \in DOMAIN events : events[i][1] = kind}

JustEnded(o) ==
    /\ pc = "next" /\ mid # 0
    /\ outcomes[mid] # <<>> /\ Last(outcomes[mid]) = o

C2_CommitMarkReceiptOrder ==
    /\ \A i \in EventsOf("mark") : \A j \in EventsOf("commit") : j < i
    /\ \A i \in EventsOf("receipt") : \E j \in EventsOf("mark") : j < i
    /\ \A i \in EventsOf("mark") : \A j \in EventsOf("receipt") : i < j
    /\ Cardinality(EventsOf("mark")) <= 1
    /\ (pc = "receipt" \/ EventsOf("mark") # {}) =>
          /\ EventsOf("mark") # {}
          /\ Cardinality(EventsOf("commit")) = expectedBatches
          /\ attIdx > nAtts[mid] /\ rowsLeft = 0 /\ inserted > 0

\* C2 witness: two batches committed, the message marked, a receipt attempted.
C2_Witness ==
    /\ pc = "next"
    /\ Len(events) = 4
    /\ events[1][1] = "commit" /\ events[2][1] = "commit"
    /\ events[3][1] = "mark" /\ events[4][1] = "receipt"

\* C3: a message whose ingestion returned zero rows is counted as failed, an
\* alert is attempted exactly when alerts are configured, it stays unread and
\* out of the seen-set; a message is marked only with inserted > 0.
C3_ZeroRowsIsFailure ==
    /\ pc = "mark" => inserted > 0
    /\ \A m \in Messages : markedRun[m] # 0 => ledger[m] > 0
    /\ emails_failed = Tally("zero") + Tally("error")
    /\ JustEnded("zero") =>
          /\ inserted = 0
          /\ mid \in unread
          /\ mid \notin processed_message_ids
          /\ EventsOf("mark") = {}
          /\ Cardinality(EventsOf("alert")) = (IF send_alerts THEN 1 ELSE 0)

\* C3 witness: a zero-row message just ended, its alert could not be sent.
C3_Witness ==
    /\ JustEnded("zero")
    /\ events = << <<"alert", "failed">> >>
    /\ emails_failed = 1

C5_PartialFailureIsolation ==
    /\ pc = "crashed" => mid = 0
    /\ pc = "except" => mid \in unread /\ mid \notin processed_message_ids
    /\ JustEnded("error") => mid \in unread /\ mid \notin processed_message_ids
    /\ pc = "returned" =>
          /\ \A m \in listed : outcomes[m] # <<>>
          /\ emails_processed = Tally("ok")
          /\ emails_skipped = Tally("skipped")
          /\ emails_failed = Tally("zero") + Tally("error")

\* C5 witness: of two messages of the same single label the older one raised
\* and the newer one was still ingested, marked and counted.
C5_Witness ==
    /\ pc = "returned"
    /\ msgLabels[1] = {1} /\ msgLabels[2] = {1}
    /\ outcomes[1] = <<"error">> /\ outcomes[2] = <<"ok">>
    /\ emails_failed = 1 /\ emails_processed = 1 /\ 2 \notin unread

\* C6 (as stated): run_once never ends by raising: whatever fails, it
\* returns its counts.
C6_RunNeverCrashes == pc # "crashed"

\* C6 (amended): run_once ends by raising only when resolve_label_ids or
\* search_message_ids raises, between messages; no failure inside a message's
\* processing ends the run, and a run that returns has been through every
\* configured label.
C6_CrashOnlyBetweenMessages ==
    /\ pc = "crashed" =>
          /\ crashedAt \in {"resolve_label_ids", "search_message_ids"}
          /\ mid = 0 /\ todo = <<>>
    /\ pc = "returned" => labelIdx = NumLabels + 1 /\ crashedAt = "none"
    /\ pc = "except" => crashedAt = "none"

\* C6 witness: the listing of the second label raised after a message of the
\* first label had been ingested and counted.
C6_Witness ==
    /\ pc = "crashed" /\ crashedAt = "search_message_ids"
    /\ labelIdx = 2 /\ emails_processed = 1 /\ emails_failed = 1

\* C7 (as stated): within one run a message is attempted at most once,
\* whatever the outcome of its first attempt.
C7_AtMostOnceEveryOutcome == \A m \in Messages : Len(outcomes[m]) <= 1

\* C7 (amended): within one run no attempt follows a success or a skip of the
\* same message; only failed attempts (zero rows, exception) are followed by
\* another attempt under a later label.
C7_NoAttemptAfterSuccessOrSkip ==
    \A m \in Messages : \A i \in DOMAIN outcomes[m] :
        i < Len(outcomes[m]) => outcomes[m][i] \in {"zero", "error"}

\* C7 witness: a skipped message is listed again under the second label and
\* is in the seen-set.
C7_Witness ==
    /\ pc = "next" /\ labelIdx = 2 /\ todo # <<>>
    /\ Head(todo) \in processed_message_ids
    /\ outcomes[Head(todo)] = <<"skipped">>

\* C8: every attachment of a message whose ingestion has returned has exactly
\* one registry entry keyed by (message id, attachment name).
C8_RegistryEntryPerAttachment ==
    pc \in {"mark", "receipt"} =>
        \A a \in 1..nAtts[mid] :
            Cardinality({e \in registry : e[1] = mid /\ e[2] = a}) = 1
\* C9: _insert_batch makes at most 1 + max(0, db_retry) attempts, and an
\* attempt that ends with an exception other than OperationalError is the
\* last one: the exception propagates without a further attempt.
C9_BoundedAttemptsNoRetryOfOther ==
    /\ attemptsMade <= 1 + (IF db_retry > 0 THEN db_retry ELSE 0)
    /\ otherAt # 0 =>
          /\ attemptsMade = otherAt
          /\ b_pc \in {"finally", "raised"}
          /\ b_pc = "raised" => raised_err = "other"

\* C9 witness: with DB_RETRY = 1 the first attempt failed in execute with a
\* non-operational error and the call raised after that single attempt.
C9_Witness ==
    /\ b_pc = "raised" /\ raised_err = "other" /\ errStep = "execute"
    /\ db_retry = 1 /\ attemptsMade = 1

\* C10: an OperationalError leaves _insert_batch only when the attempts are
\* exhausted, wherever in the attempt it was raised.
C10_TransientRetriedUntilExhausted ==
    (b_pc = "raised" /\ raised_err = "operational") =>
        attemptsMade = 1 + (IF db_retry > 0 THEN db_retry ELSE 0)

\* C11: a batch is atomic per attempt: at every moment of an _insert_batch
\* call the ledger table holds either none or all of the batch's records;
\* while an attempt is failing and after the call raised it holds none, and
\* after the call returned it holds all of them.
C11_BatchAtomicPerAttempt ==
    /\ table_rows \in {0, records}
    /\ (cur_err # "none" => table_rows = 0)
    /\ (b_pc = "raised" => table_rows = 0)
    /\ (b_pc = "returned" => table_rows = records)

\* a two-record batch whose execute_batch failed has been rolled back
C11_Witness ==
    /\ b_pc = "handler" /\ errStep = "execute"
    /\ records = 2 /\ pending = 0 /\ table_rows = 0

\* C12: when _insert_batch has returned or raised, no handle acquired by one
\* of its attempts is still open, and no attempt starts while the handle of
\* an earlier attempt is open.
C12_HandleAlwaysReleased ==
    /\ (b_pc \in {"returned", "raised"} => handle_open = 0)
    /\ (b_pc = "acquire" => handle_open = 0)

\* ======================================================= SpecSlice
\* _extract_rows_from_xlsx_bytes_using_specs, sheet by sheet and spec by spec
MaxSheets == 2          \* sheets of a workbook
MaxSpecs == 2           \* table specs the detector gives for one workbook
MaxBase == 3
MaxCeiling == 6
MaxGridRows == 2        \* rows of a sheet's grid

\* the texts of a grid row (excel_2ai_agent.py 67-73: every cell is a string,
\* "" where the sheet has no value)
RowKinds ==
    { <<"Date", "Date", "Date_2">>,
      <<"", " ", "Unnamed: 2">>,
      <<"", " ", "">>,
      <<" x", "", "y ">> }

Grids == UNION { [1..n -> RowKinds] : n \in 0..MaxGridRows }

\* a 1-based row number of a spec, or nothing (spec.get(...) is None)
OptRow == {<<>>} \cup { <<n>> : n \in 0..(MaxGridRows + 1) }

Notes == {"", " No Record ", "partial"}

TableSpecs ==
    [header_row : OptRow, data_start : OptRow, data_end : OptRow, note : Notes]

\* str.strip()
Strip(s) ==
    CASE s = " " -> ""
      [] s = " x" -> "x"
      [] s = "y " -> "y"
      [] s = " No Record " -> "No Record"
      [] s = " 1" -> "1"
      [] OTHER -> s

\* str.lower()
Lower(s) ==
    CASE s = "No Record" -> "no record"
      [] s = "Subscription" -> "subscription"
      [] s = "Redemption" -> "redemption"
      [] s = "Fund Subscription" -> "fund subscription"
      [] OTHER -> s

\* excel_2ai_agent.py 113: h.startswith("Unnamed:")
IsUnnamed(h) == h = "Unnamed: 2"

\* the members of a set of numbers, in increasing order
SortedSeq(S) ==
    CHOOSE q \in [1..Cardinality(S) -> S] :
        \A i, j \in 1..Cardinality(S) : i < j => q[i] < q[j]

\* excel_2ai_agent.py 23-38
_make_unique_headers(hs) ==
    [i \in 1..Len(hs) |->
        LET seen == Cardinality({j \in 1..(i - 1) : hs[j] = hs[i]})
        IN  IF seen > 0 THEN hs[i] \o "_" \o ToString(seen + 1) ELSE hs[i]]

\* excel_2ai_agent.py 83, 86
IsNoData_never(note) == FALSE

IsNoData(note) == Lower(Strip(note)) \in {"no record", "no records"}

\* excel_2ai_agent.py 89
AnyAbsent(sp) ==
    sp.header_row = <<>> \/ sp.data_start = <<>> \/ sp.data_end = <<>>

\* excel_2ai_agent.py 103
CapEnd_uncapped(de, n_rows) == de

CapEnd(de, n_rows) == Min(de, n_rows - 1)

\* excel_2ai_agent.py 99-102, on 0-based indices
OutOfRange(hr, ds, de, n_rows) ==
    \/ hr < 0 \/ ds < 0 \/ de < ds
    \/ hr >= n_rows \/ ds >= n_rows

\* excel_2ai_agent.py 106
HeadersRaw(grid, hr) == [ci \in 1..Len(grid[hr + 1]) |-> Strip(grid[hr + 1][ci])]

\* excel_2ai_agent.py 108-116: the columns kept, as 1-based positions
ValidColIdx(hraw, du) ==
    SortedSeq({ci \in 1..Len(hraw) :
                  hraw[ci] # "" /\ ~(du /\ IsUnnamed(hraw[ci]))})

\* excel_2ai_agent.py 125: raw.iloc[excel_r0].values (the code never reads
\* beyond the grid)
RowVals(grid, r0) == IF r0 + 1 \in DOMAIN grid THEN grid[r0 + 1] ELSE <<>>

\* excel_2ai_agent.py 126-133: a dict; a later column with the same label
\* overwrites the value of an earlier one
RowDict(hs, cols, row_vals) ==
    [h \in {hs[i] : i \in 1..Len(hs)} |->
        LET last == SetMax({i \in 1..Len(hs) : hs[i] = h})
            ci == cols[last]
        IN  IF ci <= Len(row_vals) THEN Strip(row_vals[ci]) ELSE ""]

\* excel_2ai_agent.py 137
IsBlankRow(row_dict) == \A h \in DOMAIN row_dict : Strip(row_dict[h]) = ""

\* excel_2ai_agent.py 145
ExcelRow_zero_based(excel_r0) == excel_r0

ExcelRow(excel_r0) == excel_r0 + 1

\* excel_2ai_agent.py 150
IdxAfterEmit_stuck(idx) == idx

IdxAfterEmit(idx) == idx + 1

\* excel_2ai_agent.py 124-150: the loop over the data rows; acc holds
\* all_rows and global_row_idx
RECURSIVE SliceLoop(_, _, _, _)
SliceLoop(excel_r0, de, ctx, acc) ==
    IF excel_r0 > de THEN acc
    ELSE LET row_dict == RowDict(ctx.headers, ctx.cols, RowVals(ctx.raw, excel_r0))
         IN  IF ctx.drop /\ IsBlankRow(row_dict)
               THEN SliceLoop(excel_r0 + 1, de, ctx, acc)
               ELSE SliceLoop(excel_r0 + 1, de, ctx,
                      [rows |-> Append(acc.rows,
                                   [sheet_idx |-> ctx.sheet_idx,
                                    table |-> ctx.table,
                                    excel_row |-> ExcelRow(excel_r0),
                                    row_idx |-> acc.idx,
                                    row |-> row_dict]),
                       idx |-> IdxAfterEmit(acc.idx)])

machineVars == <<runAllVars, batchVars>>

offSliceVars == <<machineVars, normVars, workerVars, laterVars>>

\* how the slicer leaves a spec (excel_2ai_agent.py 86-119)
SpecEnd(sp, grid, du) ==
    IF IsNoData(sp.note) THEN "note"
    ELSE IF AnyAbsent(sp) THEN "absent"
    ELSE IF OutOfRange(sp.header_row[1] - 1, sp.data_start[1] - 1,
                       sp.data_end[1] - 1, Len(grid)) THEN "range"
    ELSE IF ValidColIdx(HeadersRaw(grid, sp.header_row[1] - 1), du) = <<>>
      THEN "noheaders"
    ELSE "sliced"

\* what the detector's model can answer: a JSON object keyed by sheet name, a
\* JSON array, and text in which no JSON object can be found
DetectorAnswers == {"object", "array", "prose"}

\* excel_table_detector.py 40-53 with helpers.py 8-17: the answer is parsed
\* and returned as it is; text that holds no JSON makes json.loads raise
detect_tables_from_bytes(answer) ==
    CASE answer = "object" -> "map"
      [] answer = "array" -> "not_map"
      [] OTHER -> "raise"

\* what a map of the detector holds for one sheet: a list of specs (empty
\* when ns = 0), a spec object standing alone, or a text
SheetEntries == {"list", "object", "text"}

\* excel_2ai_agent.py 62-79: .get on something that is not a dict raises; a
\* falsy entry and an empty grid pass the sheet over; iterating an entry that
\* is not a list yields its keys or characters, and spec.get on them raises
SheetSpecs(specs_by_sheet, entry, ns, n_rows) ==
    CASE specs_by_sheet # "map" -> "raise"
      [] entry = "list" /\ ns = 0 -> "continue"
      [] n_rows <= 0 -> "continue"
      [] entry = "list" -> "slice"
      [] OTHER -> "raise"

\* excel_2ai_agent.py 41-59: a call with its options and the workbook's sheets
SliceCall ==
    /\ s_pc \in {"idle", "done", "raised"}
    /\ drop_unnamed' \in BOOLEAN
    /\ drop_all_blank_rows' \in BOOLEAN
    /\ n_sheets' \in 0..MaxSheets
    /\ \E answer \in DetectorAnswers :
          /\ table_specs' = detect_tables_from_bytes(answer)
          /\ s_pc' = IF detect_tables_from_bytes(answer) = "raise"
                       THEN "raised" ELSE "sheets"
    /\ sheet_idx' = 0 /\ raw' = <<>> /\ n_specs' = 0 /\ t_i' = 0
    /\ spec' = [header_row |-> <<>>, data_start |-> <<>>, data_end |-> <<>>,
                note |-> ""]
    /\ headers' = <<>> /\ valid_col_idx' = <<>>
    /\ all_rows' = <<>> /\ global_row_idx' = 0
    /\ specs_given' = 0
    /\ rows_before' = 0 /\ spec_end' = "none" /\ skipped' = {}
    /\ UNCHANGED offSliceVars

\* excel_2ai_agent.py 61-77: the next sheet; a sheet without specs or with an
\* empty grid is passed over
OpenSheet ==
    /\ s_pc = "sheets" /\ sheet_idx < n_sheets
    /\ \E entry \in SheetEntries, grid \in Grids,
          ns \in 0..(MaxSpecs - specs_given) :
          LET how == SheetSpecs(table_specs, entry, ns, Len(grid))
          IN  /\ specs_given' = IF entry = "list" /\ how # "raise"
                                  THEN specs_given + ns ELSE specs_given
              /\ CASE how = "raise" ->
                        /\ s_pc' = "raised"
                        /\ UNCHANGED <<sheet_idx, raw, n_specs>>
                   [] how = "continue" ->
                        /\ sheet_idx' = sheet_idx + 1
                        /\ UNCHANGED <<s_pc, raw, n_specs>>
                   [] OTHER ->
                        /\ raw' = grid /\ n_specs' = ns
                        /\ s_pc' = "specs"
                        /\ UNCHANGED sheet_idx
    /\ t_i' = 0 /\ skipped' = {}
    /\ UNCHANGED <<offSliceVars, table_specs, drop_unnamed, drop_all_blank_rows, n_sheets,
                   spec, headers, valid_col_idx, all_rows, global_row_idx,
                   rows_before, spec_end>>

\* excel_2ai_agent.py 79-150: one spec of the sheet
SliceSpec ==
    /\ s_pc = "specs" /\ t_i < n_specs
    /\ \E sp \in TableSpecs :
          LET end == SpecEnd(sp, raw, drop_unnamed)
              hr == sp.header_row[1] - 1
              ds == sp.data_start[1] - 1
              de == CapEnd(sp.data_end[1] - 1, Len(raw))
              cols == ValidColIdx(HeadersRaw(raw, hr), drop_unnamed)
              hs == _make_unique_headers(
                        [i \in 1..Len(cols) |-> HeadersRaw(raw, hr)[cols[i]]])
              out == SliceLoop(ds, de,
                        [raw |-> raw, headers |-> hs, cols |-> cols,
                         drop |-> drop_all_blank_rows,
                         sheet_idx |-> sheet_idx, table |-> t_i + 1],
                        [rows |-> all_rows, idx |-> global_row_idx])
          IN  /\ spec' = sp
              /\ spec_end' = end
              /\ rows_before' = Len(all_rows)
              /\ skipped' = IF end \in {"note", "absent"}
                              THEN skipped \cup {t_i} ELSE skipped
              /\ valid_col_idx' = IF end = "sliced" THEN cols ELSE <<>>
              /\ headers' = IF end = "sliced" THEN hs ELSE <<>>
              /\ all_rows' = IF end = "sliced" THEN out.rows ELSE all_rows
              /\ global_row_idx' = IF end = "sliced" THEN out.idx
                                   ELSE global_row_idx
    /\ s_pc' = "spec_done"
    /\ UNCHANGED <<offSliceVars, table_specs, drop_unnamed, drop_all_blank_rows, n_sheets,
                   sheet_idx, raw, n_specs, t_i, specs_given>>

\* excel_2ai_agent.py 79: on to the sheet's next spec; the locals of the
\* finished one are dead
NextSpec ==
    /\ s_pc = "spec_done"
    /\ s_pc' = "specs"
    /\ t_i' = t_i + 1
    /\ spec' = [header_row |-> <<>>, data_start |-> <<>>, data_end |-> <<>>,
                note |-> ""]
    /\ headers' = <<>> /\ valid_col_idx' = <<>>
    /\ rows_before' = Len(all_rows) /\ spec_end' = "none"
    /\ UNCHANGED <<offSliceVars, table_specs, drop_unnamed, drop_all_blank_rows, n_sheets,
                   sheet_idx, raw, n_specs, all_rows, global_row_idx,
                   specs_given, skipped>>

\* excel_2ai_agent.py 79, 61: the sheet's specs are exhausted
SheetDone ==
    /\ s_pc = "specs" /\ t_i = n_specs
    /\ s_pc' = "sheets"
    /\ sheet_idx' = sheet_idx + 1
    /\ raw' = <<>> /\ n_specs' = 0 /\ t_i' = 0 /\ skipped' = {}
    /\ UNCHANGED <<offSliceVars, table_specs, drop_unnamed, drop_all_blank_rows, n_sheets,
                   spec, headers, valid_col_idx, all_rows, global_row_idx,
                   specs_given, rows_before, spec_end>>

\* excel_2ai_agent.py 152
SliceReturn ==
    /\ s_pc = "sheets" /\ sheet_idx = n_sheets
    /\ s_pc' = "done"
    /\ UNCHANGED <<offSliceVars, table_specs, drop_unnamed, drop_all_blank_rows, n_sheets,
                   sheet_idx, raw, n_specs, t_i, spec, headers, valid_col_idx,
                   all_rows, global_row_idx, specs_given, rows_before,
                   spec_end, skipped>>

NextSlice ==
    \/ SliceCall \/ OpenSheet \/ SliceSpec \/ NextSpec \/ SheetDone
    \/ SliceReturn

SpecSlice == InitBatch /\ [][NextSlice]_vars

\* the RowContexts the last spec added to the output
NewRows == SubSeq(all_rows, rows_before + 1, Len(all_rows))

\* C13: header uniqueness: whatever the text of the header row, the labels
\* the slicer gives to the kept columns of a table are pairwise distinct, so
\* no two columns share a key of the RowContext's field map.
C13_HeaderLabelsUnique ==
    (s_pc = "spec_done" /\ spec_end = "sliced") =>
        \A i, j \in DOMAIN headers : i # j => headers[i] # headers[j]

\* C14: row-number preservation: the RowContexts of a sliced spec carry the
\* 1-based numbers of grid rows data_start..min(data_end, rows of the grid)
\* in increasing order, each with the fields of exactly that grid row; with
\* blank-row filtering on, exactly the rows whose fields are all empty after
\* trimming are left out, with filtering off none is.
C14_RowNumbersPreserved ==
    (s_pc = "spec_done" /\ spec_end = "sliced") =>
        LET first == spec.data_start[1]
            last == Min(spec.data_end[1], Len(raw))
            Fields(r) == RowDict(headers, valid_col_idx, raw[r])
            Blank(r) == \A h \in DOMAIN Fields(r) : Strip(Fields(r)[h]) = ""
        IN  /\ \A i \in DOMAIN NewRows :
                  /\ NewRows[i].excel_row \in first..last
                  /\ NewRows[i].row = Fields(NewRows[i].excel_row)
            /\ \A i, j \in DOMAIN NewRows :
                  i < j => NewRows[i].excel_row < NewRows[j].excel_row
            /\ {NewRows[i].excel_row : i \in DOMAIN NewRows}
                  = {r \in first..last : ~(drop_all_blank_rows /\ Blank(r))}

\* with filtering on, blank row 1 was left out and row 2 is emitted as row 2
C14_Witness ==
    /\ s_pc = "spec_done" /\ spec_end = "sliced" /\ drop_all_blank_rows
    /\ spec.data_start = <<1>> /\ spec.data_end = <<2>>
    /\ Len(NewRows) = 1 /\ NewRows[1].excel_row = 2

\* C15: a spec whose note is the no-data sentinel, or in which header_row,
\* data_start or data_end is absent, adds no RowContext; the slicer goes on
\* with the sheet's remaining specs.
C15_NoDataSpecYieldsNothing ==
    (s_pc = "spec_done" /\ (spec.note = " No Record " \/ AnyAbsent(spec))) =>
        /\ Len(all_rows) = rows_before
        /\ spec_end \in {"note", "absent"}
        /\ t_i \in skipped

\* the sheet's first spec was skipped for its note or an absent row number,
\* and the second spec has been sliced
C15_Witness ==
    /\ s_pc = "spec_done" /\ spec_end = "sliced" /\ t_i = 1
    /\ 0 \in skipped /\ Len(NewRows) > 0

\* C16: index clamping: a spec whose header_row or data_start lies outside
\* the grid, or whose data_end < data_start, adds no row; any row a spec adds
\* has a number r with data_start <= r <= min(data_end, rows of the grid).
C16_IndexClamping ==
    (s_pc = "spec_done" /\ ~AnyAbsent(spec)) =>
        LET hr1 == spec.header_row[1]
            ds1 == spec.data_start[1]
            de1 == spec.data_end[1]
            n == Len(raw)
        IN  /\ (hr1 < 1 \/ hr1 > n \/ ds1 < 1 \/ ds1 > n \/ de1 < ds1)
                  => Len(all_rows) = rows_before
            /\ \A i \in DOMAIN NewRows :
                  /\ ds1 <= NewRows[i].excel_row
                  /\ NewRows[i].excel_row <= Min(de1, n)

\* data_end lies beyond the grid and the last row emitted is the grid's last
C16_Witness ==
    /\ s_pc = "spec_done" /\ spec_end = "sliced"
    /\ spec.data_end[1] > Len(raw)
    /\ Len(NewRows) > 0 /\ NewRows[Len(NewRows)].excel_row = Len(raw)

\* C17: the output is ordered by sheet, then by spec within the sheet, then
\* by row within the spec, and row_idx (sequence_index) counts the output
\* from 0 upwards without gap or repeat, whatever was skipped or filtered.
C17_OutputOrderAndSequenceIndex ==
    /\ global_row_idx = Len(all_rows)
    /\ \A i \in DOMAIN all_rows : all_rows[i].row_idx = i - 1
    /\ \A i, j \in DOMAIN all_rows :
          i < j =>
             \/ all_rows[i].sheet_idx < all_rows[j].sheet_idx
             \/ /\ all_rows[i].sheet_idx = all_rows[j].sheet_idx
                /\ all_rows[i].table < all_rows[j].table
             \/ /\ all_rows[i].sheet_idx = all_rows[j].sheet_idx
                /\ all_rows[i].table = all_rows[j].table
                /\ all_rows[i].excel_row < all_rows[j].excel_row

\* a returned extraction with rows of two sheets, one blank row filtered
C17_Witness ==
    /\ s_pc = "done" /\ drop_all_blank_rows
    /\ Len(all_rows) = 2
    /\ all_rows[1].sheet_idx = 0 /\ all_rows[1].excel_row = 2
    /\ all_rows[2].sheet_idx = 1 /\ all_rows[2].row_idx = 1

\* ======================================================== SpecNorm
\* ai_transform_one_row_to_db_record: one classifier response, step by step

\* extract_agent_prompts.py 195-216
OUTPUT_COLS ==
    { "transaction_type", "booking_text", "description",
      "account", "custody_account", "debit_account", "credit_account",
      "client_name", "order_no", "settlement_no", "document_no",
      "trade_date", "settle_date", "value_date", "booking_date", "ex_date",
      "due_date", "period_from", "period_to",
      "currency", "amount", "amount_sign", "gross_amount", "net_amount",
      "amount_text",
      "quantity", "price", "nominal", "coupon_rate_percent", "fx_rate",
      "trading_currency",
      "security_name", "ticker", "isin", "valor", "cusip", "sedol",
      "execution_venue", "execution_time",
      "commission", "stock_exchange_fee", "third_party_executions_fee",
      "foreign_financial_fee", "other_fee", "fees_total",
      "withholding_tax", "transaction_tax", "taxes_total",
      "realized_pl", "transaction_gain", "exchange_gain",
      "bank_name", "counterparty_bic", "beneficiary_name",
      "beneficiary_account",
      "createdon", "file_name", "client_id", "cash_distribution_amount" }

\* dict.get(k): None for a key the dict does not have
Get(m, k) == IF k \in DOMAIN m THEN m[k] ELSE null

\* d[k] = v
Put(m, k, v) == [x \in DOMAIN m \cup {k} |-> IF x = k THEN v ELSE m[x]]

\* a or b
Or(a, b) == IF a # null /\ a # "" THEN a ELSE b

\* what the classifier may answer for the keys the normalizer looks at, and
\* for one key ("remark") that is no target column
ClassifierFields ==
    [ description : {absent, null, " ", "x"},
      custody_account : {null, "x"},
      trade_date : {null, "2024-01-02"},
      amount : {null, "5", "(5)", "-", "abc", "5-", "(-5)", "--5"},
      quantity : {null, "5", "-5"},
      amount_sign : {null, "1", "-1", "0", "abc"},
      transaction_type : {null, "Subscription", "Fund Subscription"},
      file_name : {absent, "other.xlsx"},
      remark : {absent, "x"} ]

ClassifierObj(f) == [k \in {x \in DOMAIN f : f[x] # absent} |-> f[k]]

\* the text the classifier returns: a JSON object, a JSON object inside
\* prose, a JSON array, prose without an object, a truncated object
Resps ==
    { [form |-> "object", obj |-> ClassifierObj(f)] : f \in ClassifierFields }
    \cup { [form |-> fm, obj |-> EmptyMap] :
              fm \in {"wrapped", "array", "prose", "truncated"} }

\* excel_2ai_agent.py 281: the row's non-empty cells by header
RowJsons == { EmptyMap, [Type |-> "Redemption"] }

\* helpers.py 8-17
_safe_json_loads(r) ==
    CASE r.form = "object" -> [raised |-> FALSE, kind |-> "dict", map |-> r.obj]
      [] r.form = "array" -> [raised |-> FALSE, kind |-> "list", map |-> EmptyMap]
      [] r.form = "wrapped" -> [raised |-> FALSE, kind |-> "dict", map |-> r.obj]
      [] OTHER -> [raised |-> TRUE, kind |-> "none", map |-> EmptyMap]

\* helpers.py 20-25
_is_blank_value(v) == v = null \/ Strip(v) = ""

\* helpers.py 29
DropKeys_without_sign ==
    {"description", "custody_account", "trade_date", "amount", "quantity"}

DropKeys ==
    {"description", "custody_account", "trade_date", "amount", "quantity",
     "amount_sign"}

\* helpers.py 28-30
_should_drop_record(r) == \A k \in DropKeys : _is_blank_value(Get(r, k))

\* helpers.py 73: the keys of the record the sanitizer builds
SanitizedKeys_of_obj(o) == IF o.kind = "dict" THEN DOMAIN o.map ELSE OUTPUT_COLS

SanitizedKeys(o) == OUTPUT_COLS

\* helpers.py 72-84
_sanitize_ai_record(o) ==
    [c \in SanitizedKeys(o) |->
        IF o.kind # "dict" THEN null
        ELSE LET v == Get(o.map, c)
             IN  IF v # null /\ Strip(v) = "" THEN null ELSE v]

\* excel_2ai_agent.py 304-310: int(str(v).strip()) in (-1, 1)
ExplicitSign_any_number(v) ==
    IF v # null /\ Strip(v) \in {"1", "-1", "0"} THEN Strip(v) ELSE null

ExplicitSign(v) ==
    IF v # null /\ Strip(v) \in {"1", "-1"} THEN Strip(v) ELSE null

\* helpers.py 39-42, 44
Parenthesized(t) == t \in {"(5)", "(-5)"}

StartsWithMinus(t) == t \in {"-5", "-", "--5"}

EndsWithMinus(t) == t \in {"5-", "-"}

FloatSign(t) == IF t = "5" THEN "1" ELSE null

\* helpers.py 33-51
_infer_sign_from_raw(v) ==
    IF v = null THEN null
    ELSE LET t == Strip(v)
         IN  IF t = "" THEN null
             ELSE IF Parenthesized(t) THEN "-1"
             ELSE IF StartsWithMinus(t) \/ EndsWithMinus(t) THEN "-1"
             ELSE FloatSign(t)

\* helpers.py 54-69
_compute_amount_sign_raw_same_sign(ttype_raw, qty_raw, amt_raw, sheet) ==
    LET t == Lower(Strip(ttype_raw))
        qty_sign == _infer_sign_from_raw(qty_raw)
        amt_sign == _infer_sign_from_raw(amt_raw)
    IN  IF sheet = 1
          THEN IF qty_sign # null THEN qty_sign ELSE amt_sign
        ELSE IF t \in {"subscription", "redemption"}
          THEN IF qty_sign # null THEN qty_sign ELSE amt_sign
        ELSE amt_sign

_compute_amount_sign_raw(ttype_raw, qty_raw, amt_raw, sheet) ==
    LET t == Lower(Strip(ttype_raw))
        qty_sign == _infer_sign_from_raw(qty_raw)
        amt_sign == _infer_sign_from_raw(amt_raw)
        inverted == IF qty_sign = "1" THEN "-1" ELSE "1"
    IN  IF sheet = 1
          THEN IF qty_sign # null THEN inverted ELSE amt_sign
        ELSE IF t \in {"subscription", "redemption"}
          THEN IF qty_sign # null THEN inverted ELSE amt_sign
        ELSE amt_sign

\* excel_2ai_agent.py 334-349
Unparen(t) == CASE t = "(5)" -> "5" [] t = "(-5)" -> "-5" [] OTHER -> t

DropLeadingMinus(t) ==
    CASE t = "-5" -> "5" [] t = "-" -> "" [] t = "--5" -> "-5" [] OTHER -> t

DropTrailingMinus(t) == CASE t = "5-" -> "5" [] t = "-" -> "" [] OTHER -> t

DeSign_first_only(v) ==
    IF v = null THEN null
    ELSE LET t0 == Strip(v)
             t3 == IF Parenthesized(t0) THEN Strip(Unparen(t0))
                   ELSE IF StartsWithMinus(t0) THEN DropLeadingMinus(t0)
                   ELSE IF EndsWithMinus(t0) THEN DropTrailingMinus(t0)
                   ELSE t0
         IN  IF t0 = "" THEN null ELSE IF t3 # "" THEN t3 ELSE null

DeSign(v) ==
    IF v = null THEN null
    ELSE LET t0 == Strip(v)
             t1 == IF Parenthesized(t0) THEN Strip(Unparen(t0)) ELSE t0
             t2 == IF StartsWithMinus(t1) THEN DropLeadingMinus(t1) ELSE t1
             t3 == IF EndsWithMinus(t2) THEN DropTrailingMinus(t2) ELSE t2
         IN  IF t0 = "" THEN null ELSE IF t3 # "" THEN t3 ELSE null

MagnitudeKeys == {"amount", "quantity", "gross_amount", "net_amount"}

\* excel_2ai_agent.py 304-321: the classifier's sign if it is -1 or 1, else
\* the sign inferred from the raw texts
ResolvedSign(r, row, sheet) ==
    LET explicit == ExplicitSign(Get(r, "amount_sign"))
        t_raw == Or(Get(r, "transaction_type"),
                    Or(Get(row, "Type"), Or(Get(row, "Transaction Type"), "")))
        inferred == _compute_amount_sign_raw(t_raw, Get(r, "quantity"),
                                             Get(r, "amount"), sheet)
    IN  IF explicit # null THEN explicit ELSE inferred

\* excel_2ai_agent.py 324-349
DeSigned(r) ==
    IF Get(r, "amount_sign") \in {"-1", "1"}
      THEN [k \in DOMAIN r |->
              IF k \in MagnitudeKeys THEN DeSign(r[k]) ELSE r[k]]
      ELSE r

\* the arguments the ingest service passes (ledger_ingest_service.py 177-184)
FileName == "statement.xlsx"

ClientId == "7"

BankName == "UBS"

\* excel_2ai_agent.py 352-357
Stamped_unless_classified(r) ==
    Put(Put(Put(Put(Put(r, "createdon", "now_utc"),
                    "file_name", Or(Get(r, "file_name"), FileName)),
                "client_id", ClientId),
            "bank_name", BankName),
        "value_date", Get(r, "trade_date"))

Stamped(r) ==
    Put(Put(Put(Put(Put(r, "createdon", "now_utc"),
                    "file_name", FileName),
                "client_id", ClientId),
            "bank_name", BankName),
        "value_date", Get(r, "trade_date"))

\* excel_2ai_agent.py 301-357: the record before the drop gate
Normalized(o, row, sheet) ==
    LET r == _sanitize_ai_record(o)
    IN  Stamped(DeSigned(Put(r, "amount_sign", ResolvedSign(r, row, sheet))))

offNormVars == <<machineVars, sliceVars, workerVars, laterVars>>

\* excel_2ai_agent.py 281-298: the row goes to the classifier, which answers
NormCall ==
    /\ n_pc = "idle"
    /\ resp' \in Resps
    /\ row_json' \in RowJsons
    /\ sheet_index' \in 0..(MaxSheets - 1)
    /\ obj' = [kind |-> "none", map |-> EmptyMap]
    /\ rec' = EmptyMap /\ n_result' = "none"
    /\ n_pc' = "classified"
    /\ UNCHANGED offNormVars

\* excel_2ai_agent.py 300: what json.loads raises leaves the function
Parse ==
    /\ n_pc = "classified"
    /\ LET parsed == _safe_json_loads(resp)
       IN  IF parsed.raised
             THEN /\ n_result' = "raised" /\ n_pc' = "done"
                  /\ UNCHANGED obj
             ELSE /\ obj' = [kind |-> parsed.kind, map |-> parsed.map]
                  /\ n_pc' = "parsed"
                  /\ UNCHANGED n_result
    /\ UNCHANGED <<offNormVars, resp, row_json, sheet_index, rec>>

\* excel_2ai_agent.py 301
Sanitize ==
    /\ n_pc = "parsed"
    /\ rec' = _sanitize_ai_record(obj)
    /\ n_pc' = "sanitized"
    /\ UNCHANGED <<offNormVars, resp, row_json, sheet_index, obj, n_result>>

\* excel_2ai_agent.py 304-321: the classifier's sign if it is -1 or 1, else
\* the sign inferred from the raw texts
ResolveSign ==
    /\ n_pc = "sanitized"
    /\ rec' = Put(rec, "amount_sign", ResolvedSign(rec, row_json, sheet_index))
    /\ n_pc' = "signed"
    /\ UNCHANGED <<offNormVars, resp, row_json, sheet_index, obj, n_result>>

\* excel_2ai_agent.py 324-349
DeSignMagnitudes ==
    /\ n_pc = "signed"
    /\ rec' = DeSigned(rec)
    /\ n_pc' = "designed"
    /\ UNCHANGED <<offNormVars, resp, row_json, sheet_index, obj, n_result>>

\* excel_2ai_agent.py 352-357
SystemFields ==
    /\ n_pc = "designed"
    /\ rec' = Stamped(rec)
    /\ n_pc' = "stamped"
    /\ UNCHANGED <<offNormVars, resp, row_json, sheet_index, obj, n_result>>

\* excel_2ai_agent.py 359-362
DropGate ==
    /\ n_pc = "stamped"
    /\ n_result' = IF _should_drop_record(rec) THEN "dropped" ELSE "kept"
    /\ n_pc' = "done"
    /\ UNCHANGED <<offNormVars, resp, row_json, sheet_index, obj, rec>>

\* excel_2ai_agent.py 360-362, ledger_ingest_service.py 176-186: the caller
\* has the result and goes on to the next row
NormReturn ==
    /\ n_pc = "done"
    /\ n_pc' = "idle"
    /\ resp' = [form |-> "object", obj |-> EmptyMap]
    /\ row_json' = EmptyMap /\ sheet_index' = 0
    /\ obj' = [kind |-> "none", map |-> EmptyMap]
    /\ rec' = EmptyMap /\ n_result' = "none"
    /\ UNCHANGED offNormVars

NextNorm ==
    \/ NormCall \/ Parse \/ Sanitize \/ ResolveSign \/ DeSignMagnitudes
    \/ SystemFields \/ DropGate \/ NormReturn

SpecNorm == InitBatch /\ [][NextNorm]_vars

\* the classifier's value for a key, as the normalizer receives it
Classified(k) == Get(_sanitize_ai_record(obj), k)

\* C18 (as stated): a record is dropped exactly when all six signal fields of
\* the classified record are blank; any single one of them non-blank keeps it.
C18_DropIffAllSixBlank ==
    (n_pc = "done" /\ n_result \in {"kept", "dropped"}) =>
        (n_result = "dropped"
            <=> \A k \in {"description", "custody_account", "trade_date",
                          "amount", "quantity", "amount_sign"} :
                    Classified(k) = null)

\* C18 (amended): a record is dropped exactly when description,
\* custody_account, trade_date, amount and quantity of the classified record
\* are blank and its amount_sign is not -1 or 1 (blank, 0, non-numeric); no
\* other field, nor the row or the sheet, changes that.
C18_DropIffFiveBlankAndNoValidSign ==
    (n_pc = "done" /\ n_result \in {"kept", "dropped"}) =>
        (n_result = "dropped"
            <=> /\ \A k \in {"description", "custody_account", "trade_date",
                             "amount", "quantity"} : Classified(k) = null
                /\ Classified("amount_sign") \notin {"1", "-1"})

\* a record whose only non-blank signal field is amount_sign = 0 was dropped
C18_Witness ==
    /\ n_pc = "done" /\ n_result = "dropped"
    /\ Classified("amount_sign") = "0"
    /\ Classified("transaction_type") = "Subscription"

\* C19: every record normalize returns has exactly the fixed field set as
\* its keys, whatever keys the classifier's answer had.
C19_FieldSetClosure ==
    (n_pc = "done" /\ n_result = "kept") => DOMAIN rec = OUTPUT_COLS

\* a kept record for an answer without "description" and with the key
\* "remark", which is no target column
C19_Witness ==
    /\ n_pc = "done" /\ n_result = "kept"
    /\ "remark" \in DOMAIN obj.map /\ "description" \notin DOMAIN obj.map

\* C20: no answer of the classifier, however malformed, makes normalize
\* raise.
C20_ContractViolationNeverRaises == n_result # "raised"


\* ====================================================== the worker's loop
\* w_pc: init | loop | sleeping
offWorkerVars == <<machineVars, sliceVars, normVars, laterVars>>

\* run_realtime_worker.py 38-41: the interval after a run that returned
NextInterval(sleep, base, ceiling, n_processed, n_failed, n_skipped) ==
    IF n_processed = 0 /\ n_failed = 0 /\ n_skipped = 0
      THEN Min(sleep * 2, ceiling)
      ELSE base

\* run_realtime_worker.py 46: the interval after a run that raised
IntervalAfterCrash(sleep, base, ceiling) == Min(ceiling, Max(base, sleep))

\* run_realtime_worker.py 19-26: the intervals come from the environment,
\* unchecked, and the first interval is the base interval
WorkerStart ==
    /\ w_pc = "init"
    /\ base_interval' \in 1..MaxBase
    /\ max_interval' \in 1..MaxCeiling
    /\ sleep_s' = base_interval'
    /\ w_pc' = "loop"
    /\ UNCHANGED <<offWorkerVars, slept_before, last_run>>

\* run_realtime_worker.py 30-41: run_once returns its counts
Poll ==
    /\ w_pc = "loop"
    /\ \E n_processed \in 0..1, n_failed \in 0..1, n_skipped \in 0..1 :
          /\ sleep_s' = NextInterval(sleep_s, base_interval, max_interval,
                                     n_processed, n_failed, n_skipped)
          /\ last_run' = IF n_processed = 0 /\ n_failed = 0 /\ n_skipped = 0
                           THEN "nothing" ELSE "work"
    /\ slept_before' = sleep_s
    /\ w_pc' = "sleeping"
    /\ UNCHANGED <<offWorkerVars, base_interval, max_interval>>

\* run_realtime_worker.py 43-46: run_once raises
PollCrashed ==
    /\ w_pc = "loop"
    /\ sleep_s' = IntervalAfterCrash(sleep_s, base_interval, max_interval)
    /\ last_run' = "crashed"
    /\ slept_before' = sleep_s
    /\ w_pc' = "sleeping"
    /\ UNCHANGED <<offWorkerVars, base_interval, max_interval>>

\* run_realtime_worker.py 48, 29: time.sleep(sleep_s), then the next poll
Sleep ==
    /\ w_pc = "sleeping"
    /\ w_pc' = "loop"
    /\ UNCHANGED <<offWorkerVars, base_interval, max_interval, sleep_s,
                   slept_before, last_run>>

NextWorker == WorkerStart \/ Poll \/ PollCrashed \/ Sleep

SpecWorker == InitBatch /\ [][NextWorker]_vars

\* ================================================ configuration resolution
\* c_pc: idle | parsed | labelled | bank | done
\* every value is a text; a list of sheet names is written as one text
offConfigVars == <<machineVars, sliceVars, normVars, workerVars, registryVars, jobVars,
                   pagingVars>>

\* parser.py 8-40: what the body's directives give; " " is a blank bank name
\* and "[]" a sheet_names directive without a name
EmailMetas ==
    [ client_id : {null, "5"},
      bank_name : {null, " ", "ubs"},
      header_row : {null, "0", "2"},
      password : {null, "", "m"},
      sheet_names : {null, "[]", "A"} ]

\* pipeline.py 180-184: the label label_entry's client id and default bank
LabelEntries == [ client_id : {"7"}, default_bank : {"", "HSBC"} ]

\* the INI file: the sections of banks, the options of a bank's section and
\* of [MAIL2LEDGER] ("" for an option that is missing or empty)
Configs ==
    [ sections : {{}, {"UBS"}, {"UBS", "HSBC"}},
      HEADER_ROW : {"", "1"},
      SHEET_NAMES : {"", "B"},
      PASSWORD : {"", "b", "b ; note"},
      DEFAULT_HEADER_ROW : {"", "3"},
      DEFAULT_SHEET_NAMES : {"", "C"},
      DEFAULT_PASSWORD : {"", "g"} ]

\* str.upper()
Upper(t) == IF t = "ubs" THEN "UBS" ELSE t

\* ledger_ingest_service.py 20-23
_strip_inline_comment(t) ==
    CASE t = null -> ""
      [] t = "b ; note" -> "b"
      [] OTHER -> Strip(t)

\* ledger_ingest_service.py 26-31
_parse_csv_list(t) ==
    IF _strip_inline_comment(t) = "" THEN null ELSE _strip_inline_comment(t)

\* ledger_ingest_service.py 80-84
default_header_row(cfg) ==
    IF cfg.DEFAULT_HEADER_ROW = "" THEN "0" ELSE cfg.DEFAULT_HEADER_ROW

default_sheet_names(cfg) == _parse_csv_list(cfg.DEFAULT_SHEET_NAMES)

default_password(cfg) == _strip_inline_comment(cfg.DEFAULT_PASSWORD)

\* ledger_ingest_service.py 86-105
_resolve_bank_defaults(cfg, bank_name) ==
    LET globals == [header_row |-> default_header_row(cfg),
                    sheet_names |-> default_sheet_names(cfg),
                    password |-> default_password(cfg)]
    IN  IF bank_name = null \/ bank_name = "" THEN globals
        ELSE IF Upper(Strip(bank_name)) \notin cfg.sections THEN globals
        ELSE [header_row |-> IF cfg.HEADER_ROW # "" THEN cfg.HEADER_ROW
                             ELSE globals.header_row,
              sheet_names |-> Or(_parse_csv_list(cfg.SHEET_NAMES),
                                 globals.sheet_names),
              password |-> Or(_strip_inline_comment(cfg.PASSWORD),
                              globals.password)]

\* ledger_ingest_service.py 150-157: the metadata's value unless it is
\* missing or empty
MetaOrBank_bank_first(m, bank) ==
    [header_row |-> bank.header_row,
     sheet_names |-> bank.sheet_names,
     password |-> bank.password]

MetaOrBank(m, bank) ==
    [header_row |-> IF m.header_row # null THEN m.header_row
                    ELSE bank.header_row,
     sheet_names |-> IF m.sheet_names \notin {null, "", "[]"}
                       THEN m.sheet_names ELSE bank.sheet_names,
     password |-> IF m.password \notin {null, ""} THEN Strip(m.password)
                  ELSE bank.password]

\* pipeline.py 218-225: the label's client id and default bank fill in
LabelFill(m, e) ==
    [m EXCEPT !.client_id = IF @ = null THEN e.client_id ELSE @,
              !.bank_name = IF (@ = null \/ Strip(@) = "") /\ e.default_bank # ""
                              THEN e.default_bank ELSE @]

\* pipeline.py 215-216: the body's directives are parsed
ParseMeta ==
    /\ c_pc = "idle"
    /\ meta' \in EmailMetas
    /\ label_entry' \in LabelEntries
    /\ config' \in Configs
    /\ c_pc' = "parsed"
    /\ UNCHANGED <<offConfigVars, bank_defaults, job_cfg>>

\* pipeline.py 218-225
LabelOverride ==
    /\ c_pc = "parsed"
    /\ job_cfg' = [client_id |-> LabelFill(meta, label_entry).client_id,
                   bank_name |-> LabelFill(meta, label_entry).bank_name]
    /\ c_pc' = "labelled"
    /\ UNCHANGED <<offConfigVars, meta, label_entry, config, bank_defaults>>

\* ledger_ingest_service.py 145-148
ResolveBankDefaults ==
    /\ c_pc = "labelled"
    /\ bank_defaults' = _resolve_bank_defaults(config, job_cfg.bank_name)
    /\ c_pc' = "bank"
    /\ UNCHANGED <<offConfigVars, meta, label_entry, config, job_cfg>>

\* ledger_ingest_service.py 150-157
ResolveJob ==
    /\ c_pc = "bank"
    /\ job_cfg' = [client_id |-> job_cfg.client_id,
                   bank_name |-> job_cfg.bank_name,
                   header_row |-> MetaOrBank(meta, bank_defaults).header_row,
                   sheet_names |-> MetaOrBank(meta, bank_defaults).sheet_names,
                   password |-> MetaOrBank(meta, bank_defaults).password]
    /\ c_pc' = "done"
    /\ UNCHANGED <<offConfigVars, meta, label_entry, config, bank_defaults>>

\* pipeline.py 201: the loop goes on to the next message
ConfigDone ==
    /\ c_pc = "done"
    /\ c_pc' = "idle"
    /\ meta' = EmptyMap /\ label_entry' = EmptyMap /\ config' = EmptyMap
    /\ bank_defaults' = EmptyMap /\ job_cfg' = EmptyMap
    /\ UNCHANGED offConfigVars

NextConfig ==
    \/ ParseMeta \/ LabelOverride \/ ResolveBankDefaults \/ ResolveJob
    \/ ConfigDone

SpecConfig == InitBatch /\ [][NextConfig]_vars

\* ================================================ log_ingest_file_registry
\* r_pc: idle | statement | insert | returned
offRegistryVars == <<machineVars, sliceVars, normVars, workerVars, configVars, jobVars,
                     pagingVars>>

\* the arguments that matter for the de-dupe (ingest_registry_repo.py 8-19)
RegistryParams ==
    [ client_id : {1, 2},
      message_id : {null, "", "m1"},
      attachment_name : {"", "a.xlsx", "b.xlsx"},
      attachment_sha256 : {null, "h1"} ]

\* Python's truth value of an optional text
Truthy(t) == t \notin {null, ""}

\* ingest_registry_repo.py 48-97: which of the three statements runs
DedupeKey(prm) ==
    IF Truthy(prm.message_id) THEN "message"
    ELSE IF Truthy(prm.attachment_sha256) THEN "hash"
    ELSE "none"

\* ingest_registry_repo.py 58-62, 77-81: the NOT EXISTS subquery, evaluated
\* on the rows committed when the statement starts
KeyExists_never(rows, prm) == FALSE

KeyExists(rows, prm) ==
    CASE DedupeKey(prm) = "message" ->
            \E i \in DOMAIN rows :
                /\ rows[i].message_id = prm.message_id
                /\ rows[i].attachment_name = prm.attachment_name
      [] DedupeKey(prm) = "hash" ->
            \E i \in DOMAIN rows :
                /\ rows[i].client_id = prm.client_id
                /\ rows[i].attachment_sha256 = prm.attachment_sha256
      [] OTHER -> FALSE

\* ingest_registry_repo.py 30-31, 33-46: a call; without an attachment name
\* it returns at once
RegistryCall(p) ==
    /\ r_pc[p] \in {"idle", "returned"}
    /\ r_calls < MaxRegCalls
    /\ r_calls' = r_calls + 1
    /\ \E prm \in RegistryParams :
          /\ r_params' = [r_params EXCEPT ![p] = prm]
          /\ r_pc' = [r_pc EXCEPT ![p] =
                         IF prm.attachment_name = "" THEN "returned"
                         ELSE "statement"]
    /\ r_before' = [r_before EXCEPT ![p] = file_registry]
    /\ r_found' = [r_found EXCEPT ![p] = FALSE]
    /\ UNCHANGED <<offRegistryVars, file_registry>>

\* ingest_registry_repo.py 64, 83, 97 and aws_postgresql.py 37: the statement
\* starts and reads the committed rows
StartStatement(p) ==
    /\ r_pc[p] = "statement"
    /\ r_found' = [r_found EXCEPT ![p] = KeyExists(file_registry, r_params[p])]
    /\ r_pc' = [r_pc EXCEPT ![p] = "insert"]
    /\ UNCHANGED <<offRegistryVars, file_registry, r_params, r_before, r_calls>>

\* aws_postgresql.py 35-40: the row is inserted and committed unless the
\* subquery found the key; an error of the statement is logged and swallowed
FinishStatement(p) ==
    /\ r_pc[p] = "insert"
    /\ \/ file_registry' = IF r_found[p] THEN file_registry
                           ELSE Append(file_registry, r_params[p])
       \/ UNCHANGED file_registry
    /\ r_pc' = [r_pc EXCEPT ![p] = "returned"]
    /\ UNCHANGED <<offRegistryVars, r_params, r_found, r_before, r_calls>>

\* one caller: every call ends before the next begins
NextRegistry ==
    \/ RegistryCall(1) \/ StartStatement(1) \/ FinishStatement(1)

SpecRegistry == InitBatch /\ [][NextRegistry]_vars

\* callers with a connection each
NextRegistryConcurrent ==
    \E p \in Callers :
        \/ RegistryCall(p) \/ StartStatement(p) \/ FinishStatement(p)

SpecRegistryConcurrent == InitBatch /\ [][NextRegistryConcurrent]_vars

\* ------------------------------------------------------- ingest_email_job
offJobVars == <<machineVars, sliceVars, normVars, workerVars, configVars,
                registryVars, pagingVars>>

\* ai_transform_one_row_to_db_record gives a record or nothing for a row
RowResults == {"record", "none"}

RowSeqs == UNION {[1..n -> RowResults] : n \in 0..MaxJobRows}

\* an attachment of the job: whether it has a filename and content, and what
\* the transformer gives for each of its extracted rows
JobAttachments == [usable : BOOLEAN, rows : RowSeqs]

\* ledger_ingest_service.py 188: "if len(batch) >= self.batch_size"
BatchFull_late(b, size) == Len(b) > size

BatchFull(b, size) == Len(b) >= size

\* ledger_ingest_service.py 107-109, 189, 193: _insert_batch returns 0 for
\* an empty list without inserting, else the inserter gets the list
Handed(h, b) == IF b = <<>> THEN h ELSE Append(h, b)

\* a call of ingest_email_job(job) on a service with batch_size >= 1
JobCall ==
    /\ j_pc = "idle"
    /\ \E n \in 0..MaxJobAtts : attachments' \in [1..n -> JobAttachments]
    /\ job_batch_size' \in 1..MaxJobBatch
    /\ att_no' = 1 /\ row_no' = 0
    /\ batch' = <<>> /\ handed' = <<>> /\ inserted_total' = 0
    /\ j_pc' = "attachment"
    /\ UNCHANGED offJobVars

\* ledger_ingest_service.py 161-175: next attachment; one without a filename
\* or content is passed over, else its rows are extracted and "batch = []"
NextAttachment ==
    /\ j_pc = "attachment"
    /\ IF att_no > Len(attachments)
         THEN /\ j_pc' = "returned"
              /\ UNCHANGED <<att_no, row_no, batch>>
         ELSE IF ~attachments[att_no].usable
           THEN /\ att_no' = att_no + 1
                /\ UNCHANGED <<j_pc, row_no, batch>>
           ELSE /\ row_no' = 1 /\ batch' = <<>>
                /\ j_pc' = "row"
                /\ UNCHANGED att_no
    /\ UNCHANGED <<offJobVars, attachments, job_batch_size, handed,
                   inserted_total>>

\* ledger_ingest_service.py 176-190: one row: transform, keep the record if
\* there is one, and insert the batch when it is full; the insert may raise
TransformRow ==
    /\ j_pc = "row" /\ row_no <= Len(attachments[att_no].rows)
    /\ LET b == IF attachments[att_no].rows[row_no] = "record"
                  THEN Append(batch, <<att_no, row_no>>)
                  ELSE batch
       IN  IF BatchFull(b, job_batch_size)
             THEN /\ handed' = Handed(handed, b)
                  /\ \/ /\ inserted_total' = inserted_total + Len(b)
                        /\ batch' = <<>>
                        /\ row_no' = row_no + 1
                        /\ UNCHANGED j_pc
                     \/ /\ j_pc' = "raised"
                        /\ batch' = b
                        /\ UNCHANGED <<inserted_total, row_no>>
             ELSE /\ batch' = b
                  /\ row_no' = row_no + 1
                  /\ UNCHANGED <<handed, inserted_total, j_pc>>
    /\ UNCHANGED <<offJobVars, attachments, job_batch_size, att_no>>

\* ledger_ingest_service.py 192-194: the attachment's rows are over; what is
\* left in the batch is inserted
AttachmentEnd ==
    /\ j_pc = "row" /\ row_no > Len(attachments[att_no].rows)
    /\ handed' = Handed(handed, batch)
    /\ \/ /\ inserted_total' = inserted_total + Len(batch)
          /\ batch' = <<>>
          /\ att_no' = att_no + 1
          /\ j_pc' = "attachment"
       \/ /\ batch # <<>>
          /\ j_pc' = "raised"
          /\ UNCHANGED <<inserted_total, batch, att_no>>
    /\ UNCHANGED <<offJobVars, attachments, job_batch_size, row_no>>

\* ledger_ingest_service.py 167-185: extraction of an attachment or the
\* transformation of a row raises; nothing in the job catches it
JobRaise ==
    /\ \/ /\ j_pc = "attachment" /\ att_no <= Len(attachments)
          /\ attachments[att_no].usable
       \/ j_pc = "row" /\ row_no <= Len(attachments[att_no].rows)
    /\ j_pc' = "raised"
    /\ UNCHANGED <<offJobVars, attachments, job_batch_size, att_no, row_no,
                   batch, handed, inserted_total>>

\* ledger_ingest_service.py 196: the caller has the total, or the exception
JobOver ==
    /\ j_pc \in {"returned", "raised"}
    /\ j_pc' = "idle" /\ attachments' = <<>> /\ job_batch_size' = 1
    /\ att_no' = 0 /\ row_no' = 0 /\ batch' = <<>> /\ handed' = <<>>
    /\ inserted_total' = 0
    /\ UNCHANGED offJobVars

NextJob ==
    \/ JobCall \/ NextAttachment \/ TransformRow \/ AttachmentEnd
    \/ JobRaise \/ JobOver

SpecJob == InitBatch /\ [][NextJob]_vars

\* the records the transformer keeps of attachment a, in extraction order
KeptOf(a) ==
    LET IsKept(x) == attachments[a].rows[x[2]] = "record"
    IN  IF attachments[a].usable
          THEN SelectSeq([r \in 1..Len(attachments[a].rows) |-> <<a, r>>], IsKept)
          ELSE <<>>

RECURSIVE KeptUpTo(_)
KeptUpTo(n) == IF n = 0 THEN <<>> ELSE KeptUpTo(n - 1) \o KeptOf(n)

RECURSIVE Flatten(_)
Flatten(h) == IF h = <<>> THEN <<>> ELSE Head(h) \o Flatten(Tail(h))

IsPrefix(a, b) == Len(a) <= Len(b) /\ SubSeq(b, 1, Len(a)) = a

\* ------------------------------------- run_once with the listing page by page
offPagingVars == <<sliceVars, normVars, workerVars, configVars, registryVars,
                   jobVars>>

\* reader.py 21: maxResults=min(max_results, 500)
PageSizes(mx) == 1..Min(mx, 500)

\* reader.py 29-34: the loop returns with max_results ids or without a token
PagingOver_cap_only(got, mx, more) == Len(got) >= mx

PagingOver(got, mx, more) == Len(got) >= mx \/ ~more

\* reader.py 17-34 and pipeline.py 193-201: one messages().list call of
\* search_message_ids. The service lists the label's unread messages newest
\* first, at most maxResults and at least one further id per page while ids
\* remain, and gives a nextPageToken exactly when ids remain after the page.
\* The loop returns when it has max_results ids or no token; the call may
\* raise, outside any try of run_once.
ListPage ==
    /\ pc = "search"
    /\ \/ \E k \in PageSizes(max_results) :
            LET listing == NewestFirst(Matching(labelIdx))
                upto == Min(page_token + k, Len(listing))
                got == page_ids \o SubSeq(listing, page_token + 1, upto)
                more == upto < Len(listing)
                over == PagingOver(got, max_results, more)
                ret == Take(got, max_results)
            IN  /\ IF over
                     THEN /\ todo' = reversed(ret)
                          /\ listed' = listed \cup {ret[i] : i \in DOMAIN ret}
                          /\ taken' = <<>> /\ effects' = <<>>
                          /\ page_ids' = <<>> /\ page_token' = 0
                          /\ pc' = "next"
                     ELSE /\ page_ids' = got /\ page_token' = upto
                          /\ UNCHANGED <<todo, listed, orderVars, pc>>
                /\ UNCHANGED <<faults, crashedAt>>
       \/ /\ faults < MaxFaults
          /\ faults' = faults + 1
          /\ pc' = "crashed"
          /\ crashedAt' = "search_message_ids"
          /\ page_ids' = <<>> /\ page_token' = 0
          /\ UNCHANGED <<todo, listed, orderVars>>
    /\ UNCHANGED <<durableVars, batchVars, offPagingVars, runNo, cfgVars, labelIdx, mid,
                   processed_message_ids, counterVars, ingestVars,
                   events, outcomes, expectedBatches, markedRun, skipCount, credited>>

NextLive ==
    \/ StartRun \/ ResolveLabel \/ ListPage \/ NextMessage \/ LabelDone
    \/ FetchMessage \/ ExtractRows \/ InsertBatch \/ AttachmentDone
    \/ IngestRaise \/ IngestReturn \/ mark_message_as_read \/ SendReceipt
    \/ HandleException \/ ReturnCounts \/ EndRun

\* the mailbox before the last poll: the polls before it found none of
\* their labels (pipeline.py 187-190) and changed nothing
InitLive ==
    /\ unread = Messages
    /\ msgLabels \in [Messages -> (SUBSET Labels) \ {{}}]
    /\ nAtts \in [Messages -> 0..MaxAtt]
    /\ ledger = [m \in Messages |-> 0]
    /\ registry = {}
    /\ pc = "idle" /\ runNo = MaxRuns - 1 /\ faults = 0 /\ crashedAt = "none"
    /\ markedRun = [m \in Messages |-> 0]
    /\ skipCount = [m \in Messages |-> 0]
    /\ credited = 0
    /\ RunLocalsIdle
    /\ BatchIdle
    /\ PureIdle

\* every call of run_once returns or raises: a step that is possible is
\* taken
SpecLive == InitLive /\ [][NextLive]_vars /\ WF_vars(NextLive)

\* C21 (as stated): malformed detector output never makes extraction raise:
\* whether the answer is unparsable, is not a map from sheet name to spec
\* list, or holds for a sheet something that is not a list of spec objects,
\* the sheet counts as having no table and the call ends without an error.
C21_MalformedDetectionNeverRaises ==
    s_pc # "raised"

\* the record carries its resolved sign (excel_2ai_agent.py 321 onwards)
AfterSign ==
    \/ n_pc \in {"signed", "designed", "stamped"}
    \/ n_pc = "done" /\ n_result # "raised"

\* the record's magnitudes are de-signed (excel_2ai_agent.py 349 onwards)
AfterDeSign ==
    \/ n_pc \in {"designed", "stamped"}
    \/ n_pc = "done" /\ n_result # "raised"

\* C22: sign precedence: an explicit classifier amount_sign of -1 or +1 is
\* kept and never replaced by inference; any other explicit value (0,
\* non-numeric) counts as absent, so the record gets the sign a record without
\* amount_sign gets; amount_sign is always -1, +1 or null, never 0.
C22_SignPrecedence ==
    AfterSign =>
        LET given == Classified("amount_sign")
            bare == Put(_sanitize_ai_record(obj), "amount_sign", null)
        IN  /\ given \in {"1", "-1"} => rec["amount_sign"] = given
            /\ given \notin {"1", "-1"} =>
                  rec["amount_sign"] = ResolvedSign(bare, row_json, sheet_index)
            /\ rec["amount_sign"] \in {"-1", "1", null}

\* C22 witness: the classifier said +1 for a parenthesized amount, which
\* inference would make -1, and the record keeps +1.
C22_Witness ==
    /\ n_pc = "done" /\ n_result = "kept"
    /\ Classified("amount_sign") = "1" /\ Classified("amount") = "(5)"
    /\ rec["amount_sign"] = "1"

\* C23: without a valid explicit sign, on sheet index 1 a positive raw
\* quantity gives amount_sign -1 and a negative one +1; where no quantity
\* rule applies (no quantity sign, or neither sheet 1 nor a transaction type)
\* the sign is that of the raw amount: parenthesized, minus-prefixed or
\* minus-suffixed text is -1, a positive number +1, anything else no sign.
C23_SecondarySheetAndFallback ==
    (AfterSign /\ Classified("amount_sign") \notin {"1", "-1"}) =>
        LET qty == Classified("quantity")
            amt == Classified("amount")
            sign == rec["amount_sign"]
            typed == Classified("transaction_type") # null
                     \/ row_json # EmptyMap
        IN  /\ (sheet_index = 1 /\ qty = "5") => sign = "-1"
            /\ (sheet_index = 1 /\ qty = "-5") => sign = "1"
            /\ (qty = null \/ (sheet_index # 1 /\ ~typed)) =>
                  /\ amt \in {"(5)", "(-5)", "-", "--5", "5-"} => sign = "-1"
                  /\ amt = "5" => sign = "1"
                  /\ amt \in {null, "abc"} => sign = null

\* C23 witness: on sheet index 1 a positive quantity beside a positive
\* amount resolved to -1.
C23_Witness ==
    /\ n_pc = "signed" /\ sheet_index = 1
    /\ Classified("amount_sign") = null
    /\ Classified("quantity") = "5" /\ Classified("amount") = "5"
    /\ rec["amount_sign"] = "-1"

\* C24 (as stated): for a subscription or a redemption on any sheet, without
\* a valid explicit sign, a positive raw quantity gives amount_sign -1 and a
\* negative one +1, also when the type is the classifier's label in its
\* "<Instrument> <Action>" form such as "Fund Subscription".
C24_SubscriptionRedemptionInverts ==
    (AfterSign /\ Classified("amount_sign") \notin {"1", "-1"}) =>
        LET t_raw == Or(Classified("transaction_type"),
                        Or(Get(row_json, "Type"), ""))
        IN  t_raw \in {"Subscription", "Redemption", "Fund Subscription"} =>
              /\ Classified("quantity") = "5" => rec["amount_sign"] = "-1"
              /\ Classified("quantity") = "-5" => rec["amount_sign"] = "1"

\* how many sign markers a text carries (a parenthesis pair, a leading
\* minus, a trailing minus), and how many kinds of them
SignMarkers(t) ==
    CASE t \in {"(5)", "-5", "5-", "-"} -> 1
      [] t \in {"(-5)", "--5"} -> 2
      [] OTHER -> 0

MarkerKinds(t) ==
    CASE t \in {"(5)", "-5", "5-", "-", "--5"} -> 1
      [] t = "(-5)" -> 2
      [] OTHER -> 0

\* the characters of a text that are no sign marker
Core(t) ==
    CASE t \in {"5", "(5)", "-5", "5-", "(-5)", "--5"} -> "5"
      [] t \in {"-", "", null} -> ""
      [] OTHER -> t

\* C25 (as stated): de-signing applies at most one transformation to a text:
\* of its sign markers at most one is removed.
C25_AtMostOneTransformation ==
    (AfterDeSign /\ rec["amount_sign"] \in {"-1", "1"}) =>
        \A k \in MagnitudeKeys :
            SignMarkers(Strip(Classified(k))) - SignMarkers(rec[k]) <= 1

\* C25 (amended): de-signing removes one marker of each kind the text
\* carries (the parenthesis pair, then a leading minus, then a trailing
\* minus), so up to three transformations; an empty result is null and the
\* other characters stay as they were.
C25_OneMarkerOfEachKind ==
    (AfterDeSign /\ rec["amount_sign"] \in {"-1", "1"}) =>
        \A k \in MagnitudeKeys :
            LET was == Classified(k)
            IN  /\ rec[k] # ""
                /\ Core(rec[k]) = Core(was)
                /\ was # null =>
                     SignMarkers(Strip(was)) - SignMarkers(rec[k])
                         = MarkerKinds(Strip(was))

\* C25 witness: "(-5)" lost its parentheses and its minus.
C25_Witness ==
    /\ n_pc = "designed" /\ rec["amount_sign"] = "-1"
    /\ Classified("amount") = "(-5)" /\ rec["amount"] = "5"

\* C26 (as stated): once amount_sign is -1 or +1, each of amount, quantity,
\* gross_amount and net_amount is null or a text without leading minus,
\* trailing minus or enclosing parentheses.
C26_MagnitudesUnsigned ==
    (AfterDeSign /\ rec["amount_sign"] \in {"-1", "1"}) =>
        \A k \in MagnitudeKeys :
            \/ rec[k] = null
            \/ /\ ~Parenthesized(rec[k])
               /\ ~StartsWithMinus(rec[k])
               /\ ~EndsWithMinus(rec[k])

\* C27 (as stated): de-signing is round-trip stable: de-signing the
\* magnitudes of a normalized record again, with the same sign, changes
\* nothing.
C27_DeSignIdempotent ==
    (AfterDeSign /\ rec["amount_sign"] \in {"-1", "1"}) =>
        DeSigned(rec) = rec

\* the five system fields, and what a classifier can answer for them
SystemKeys == {"createdon", "file_name", "client_id", "bank_name", "value_date"}

SystemAnswers == [SystemKeys -> {absent, "other"}]

\* the classifier's answer with its system keys replaced
WithSystem(o, f) ==
    [o EXCEPT !.map =
        [k \in (DOMAIN o.map \ SystemKeys) \cup {x \in SystemKeys : f[x] # absent}
            |-> IF k \in SystemKeys THEN f[k] ELSE o.map[k]]]

\* C28: system-field non-interference: whatever the classifier answers for
\* createdon, file_name, client_id, bank_name and value_date, the record has
\* the file name, client id and bank name the ingestion layer passed, and
\* value_date equal to its trade_date; an answer that differs only in those
\* keys gives the same five fields.
C28_SystemFieldNonInterference ==
    (n_pc = "stamped" /\ obj.kind = "dict") =>
        /\ rec["file_name"] = FileName
        /\ rec["client_id"] = ClientId
        /\ rec["bank_name"] = BankName
        /\ rec["value_date"] = rec["trade_date"]
        /\ \A f \in SystemAnswers :
              LET other == Normalized(WithSystem(obj, f), row_json, sheet_index)
              IN  \A k \in SystemKeys : other[k] = rec[k]

\* C28 witness: the classifier answered a file name of its own and the
\* record carries the ingestion layer's.
C28_Witness ==
    /\ n_pc = "stamped"
    /\ Classified("file_name") = "other.xlsx"
    /\ Classified("trade_date") = "2024-01-02"
    /\ rec["file_name"] = FileName /\ rec["value_date"] = "2024-01-02"

\* C29: for each source, run_once takes at most max_results candidate
\* messages and takes them oldest first (the reverse of the listing); within
\* the source every insert, mark and notification of an older message
\* happens before any of a newer message.
C29_OldestFirstWithinCap ==
    LET order == taken \o todo
    IN  /\ Len(order) <= max_results
        /\ \A i, j \in DOMAIN order : i < j => order[i] < order[j]
        /\ \A i, j \in DOMAIN effects : i < j => effects[i] < effects[j]
        /\ \A i \in DOMAIN effects : \E j \in DOMAIN taken : taken[j] = effects[i]

\* C29 witness: two messages of one source both had effects, the older one
\* first.
C29_Witness ==
    /\ max_results = 2 /\ Len(effects) = 2
    /\ effects[1] < effects[2]

\* C30 (as stated): after a run that did nothing the worker doubles its
\* polling interval (up to the ceiling), after a run that did something it
\* resets the interval to the base interval, and whenever the worker sleeps,
\* the interval is at most the maximum interval.
C30_BackoffWithinCeiling ==
    w_pc = "sleeping" =>
        /\ last_run = "nothing" =>
              sleep_s = Min(2 * slept_before, max_interval)
        /\ last_run = "work" => sleep_s = base_interval
        /\ sleep_s <= max_interval

\* the first of the values that is present (neither null nor empty)
FirstPresent(vals) ==
    LET present == {i \in DOMAIN vals : vals[i] \notin {null, "", "[]"}}
    IN  IF present = {} THEN null
        ELSE vals[CHOOSE i \in present : \A k \in present : i <= k]

\* the bank's section applies when the job has a bank name with a section
SectionApplies ==
    /\ job_cfg.bank_name \notin {null, ""}
    /\ Upper(Strip(job_cfg.bank_name)) \in config.sections

RowsOfMessage(m, a) ==
    {i \in DOMAIN file_registry :
        /\ file_registry[i].message_id = m
        /\ file_registry[i].attachment_name = a}

RowsOfHash(c, h) ==
    {i \in DOMAIN file_registry :
        /\ ~Truthy(file_registry[i].message_id)
        /\ file_registry[i].client_id = c
        /\ file_registry[i].attachment_sha256 = h}

\* at most one row per key of either kind
OneRowPerKey ==
    /\ \A prm \in RegistryParams :
          Truthy(prm.message_id) =>
              Cardinality(RowsOfMessage(prm.message_id,
                                        prm.attachment_name)) <= 1
    /\ \A prm \in RegistryParams :
          Truthy(prm.attachment_sha256) =>
              Cardinality(RowsOfHash(prm.client_id,
                                     prm.attachment_sha256)) <= 1

\* a repeated call for a key the registry holds changes nothing
RepeatChangesNothing ==
    (r_pc[1] = "returned" /\ KeyExists(r_before[1], r_params[1])) =>
        file_registry = r_before[1]

\* C32 (as stated): sequential calls leave at most one row per (message id,
\* attachment name) and per (client id, hash); a call with neither key
\* always inserts; a repeated call for an existing key changes nothing.
C32_InsertIfAbsent ==
    /\ OneRowPerKey
    /\ RepeatChangesNothing
    /\ (r_pc[1] = "returned" /\ r_calls > 0
            /\ DedupeKey(r_params[1]) = "none") =>
          file_registry = Append(r_before[1], r_params[1])

\* C32 (amended): as stated, except that a call with neither key inserts
\* only when it has an attachment name, and then inserts its row or, when
\* the statement fails, nothing.
C32_InsertIfAbsentWithName ==
    /\ OneRowPerKey
    /\ RepeatChangesNothing
    /\ (r_pc[1] = "returned" /\ r_calls > 0
            /\ DedupeKey(r_params[1]) = "none") =>
          IF r_params[1].attachment_name = ""
            THEN file_registry = r_before[1]
            ELSE file_registry \in {r_before[1],
                                    Append(r_before[1], r_params[1])}
    /\ \A i \in DOMAIN file_registry : file_registry[i].attachment_name # ""

\* C32 witness: three calls, the second a repeat of the first's message key
\* and the third without any key, left two rows.
C32_Witness ==
    /\ r_calls = 3 /\ r_pc[1] = "returned"
    /\ Len(file_registry) = 2
    /\ Truthy(file_registry[1].message_id)
    /\ DedupeKey(file_registry[2]) = "none"
    /\ DedupeKey(r_params[1]) = "none"
    /\ Len(r_before[1]) = 1

\* C38 (as stated): when calls for the same (message id, attachment name)
\* interleave their existence check and their insert, the registry still
\* holds at most one row for that key.
C38_ConcurrentDedupe ==
    \A prm \in RegistryParams :
        Truthy(prm.message_id) =>
            Cardinality(RowsOfMessage(prm.message_id,
                                      prm.attachment_name)) <= 1

\* a step that sent, or failed to send, an alert or a receipt
NotificationStep ==
    /\ Len(events') > Len(events)
    /\ events'[Len(events')][1] \in {"alert", "receipt"}

\* C33: notification failures do not affect ingestion state: a step that
\* sends an alert or a receipt leaves the ledger, the marks and the seen-set
\* alone, counts a failed message as failed whether or not the alert went
\* out, and goes on with the next message, whatever the sends did.
C33_NotificationFailuresLeaveState ==
    [][NotificationStep =>
          /\ ledger' = ledger /\ unread' = unread
          /\ processed_message_ids' = processed_message_ids
          /\ markedRun' = markedRun
          /\ emails_processed' = emails_processed
          /\ rows_inserted' = rows_inserted
          /\ emails_skipped' = emails_skipped
          /\ emails_failed' = emails_failed
                                + (IF pc \in {"extract", "except"} THEN 1 ELSE 0)
          /\ todo' = todo /\ labelIdx' = labelIdx
          /\ pc' = "next"]_vars

\* C33 witness: the receipt of a processed message and the alert about that
\* failure both failed, and the run goes on with the message counted as
\* processed.
C33_Witness ==
    /\ pc = "next" /\ Len(events) >= 2
    /\ events[Len(events)] = <<"alert", "failed">>
    /\ events[Len(events) - 1] = <<"receipt", "failed">>
    /\ mid \in processed_message_ids /\ mid \notin unread
    /\ emails_processed = 1 /\ emails_failed = 0

\* C34: a message that ended its processing unmarked and counted as failed
\* has no committed row in the ledger: a failure after a committed batch
\* (a later batch or attachment, or the marking) leaves nothing behind.
C34_FailedMessageLeavesNoRows ==
    \A m \in Messages :
        (/\ pc = "next" /\ mid = m
         /\ outcomes[m] # <<>>
         /\ outcomes[m][Len(outcomes[m])] \in {"error", "zero"}
         /\ m \in unread)
            => ledger[m] = 0

CountedAttempts == emails_processed + emails_failed + emails_skipped

\* the step that ends the attempt of a message: its counter is written
AttemptCounted ==
    \/ pc = "fetch" /\ pc' = "next"
    \/ pc = "extract" /\ pc' = "next"
    \/ pc = "mark" /\ pc' = "receipt"
    \/ pc = "except" /\ pc' = "next"

\* C35: run statistics are consistent: each attempt of a message increments
\* exactly one of emails_processed, emails_failed and emails_skipped (and no
\* other step changes them), and between messages rows_inserted is the sum
\* of the rows inserted for the messages counted in emails_processed.
C35_StatisticsConsistent ==
    [][/\ AttemptCounted =>
             /\ CountedAttempts' = CountedAttempts + 1
             /\ emails_processed' >= emails_processed
             /\ emails_failed' >= emails_failed
             /\ emails_skipped' >= emails_skipped
       /\ (~AttemptCounted /\ pc' # "idle") =>
             /\ emails_processed' = emails_processed
             /\ emails_failed' = emails_failed
             /\ emails_skipped' = emails_skipped
       /\ pc' \in {"next", "label", "returned"} =>
             rows_inserted' = credited']_vars

\* C36: batching in ingest_email_job with batch_size >= 1: the batches handed
\* to the inserter, one after the other, are the kept records in extraction
\* order, each once; no batch is empty, holds more than batch_size records or
\* records of two attachments; and a call that returns, returns the number
\* of kept records of all attachments.
C36_BatchingPartition ==
    /\ \A i \in DOMAIN handed :
          /\ Len(handed[i]) \in 1..job_batch_size
          /\ \A x \in DOMAIN handed[i] : handed[i][x][1] = handed[i][1][1]
    /\ j_pc # "idle" => IsPrefix(Flatten(handed), KeptUpTo(Len(attachments)))
    /\ j_pc = "returned" =>
          /\ Flatten(handed) = KeptUpTo(Len(attachments))
          /\ inserted_total = Len(KeptUpTo(Len(attachments)))

\* C36 witness: a returned job with batch_size 2 and two attachments, the
\* first with three rows of which one gives no record, the second with three
\* records: three batches, the middle one full and all of one attachment.
C36_Witness ==
    /\ j_pc = "returned" /\ job_batch_size = 2
    /\ Len(attachments) = 2
    /\ attachments[1].rows = <<"record", "none", "record">>
    /\ attachments[2].rows = <<"record", "record", "record">>
    /\ attachments[1].usable /\ attachments[2].usable
    /\ Len(handed) = 3
    /\ handed[2] = << <<2, 1>>, <<2, 2>> >>
    /\ inserted_total = 5

\* C37: retrying a batch never duplicates rows: every retry starts with no
\* row of the batch in the table, a call that returns after failed attempts
\* leaves each record there once, and a call that raises after its attempts
\* leaves none.
C37_RetryNeverDuplicates ==
    /\ (b_pc \in {"acquire", "execute", "commit"} /\ attempt > 1) =>
          table_rows = 0
    /\ (b_pc = "returned" /\ attempt > 1) =>
          table_rows = records /\ result = records
    /\ (b_pc = "raised" /\ attemptsMade >= 1) => table_rows = 0

\* C37 witness: a two-record batch went in at the third attempt, after an
\* attempt that failed in execute_batch or commit.
C37_Witness ==
    /\ b_pc = "returned" /\ attempt = 3 /\ attemptsMade = 3
    /\ errStep \in {"execute", "commit"}
    /\ records = 2 /\ table_rows = 2 /\ result = 2

\* C39: the worker survives a crashing run: after run_once raised the worker
\* sleeps (and polls again), the interval of that sleep is at least the base
\* interval and at most the maximum interval, and it is not below the
\* interval the worker had backed off to.
C39_CrashKeepsBackoff ==
    last_run = "crashed" =>
        /\ w_pc \in {"sleeping", "loop"}
        /\ w_pc = "sleeping" =>
              /\ sleep_s >= base_interval
              /\ sleep_s <= max_interval
              /\ sleep_s >= Min(slept_before, max_interval)

\* how the run left message m
LastOutcome(m) == outcomes[m][Len(outcomes[m])]

LeftSkipped(m) ==
    /\ LastOutcome(m) = "skipped"
    /\ m \in unread /\ m \in processed_message_ids

LeftProcessed(m) ==
    /\ LastOutcome(m) = "ok"
    /\ m \notin unread /\ m \in processed_message_ids
    /\ markedRun[m] = runNo /\ ledger[m] > 0

LeftFailed(m) ==
    /\ LastOutcome(m) \in {"zero", "error"}
    /\ m \in unread /\ m \notin processed_message_ids

\* C40: when every external call returns or raises, a run of run_once
\* returns or raises, every message listed for a label gets the outcome of
\* an attempt, and when the run returns each listed message has been left in
\* exactly one of three ways: skipped, marked processed with rows inserted,
\* or unprocessed as failed.
C40_RunTerminatesWithOutcomes ==
    /\ (pc # "idle") ~> (pc \in {"returned", "crashed"})
    /\ \A m \in Messages : (m \in listed) ~> (outcomes[m] # <<>>)
    /\ [](pc = "returned" =>
            \A m \in listed :
                /\ outcomes[m] # <<>>
                /\ Cardinality({w \in {"skipped", "processed", "failed"} :
                        \/ w = "skipped" /\ LeftSkipped(m)
                        \/ w = "processed" /\ LeftProcessed(m)
                        \/ w = "failed" /\ LeftFailed(m)}) = 1)

\* C40 witness: a run with max_results 2 has returned with both messages
\* listed, the older one skipped and the newer one left as failed.
C40_Witness ==
    /\ pc = "returned" /\ listed = {1, 2} /\ max_results = 2
    /\ LeftSkipped(1) /\ LeftFailed(2)

====
